---- MODULE Spec2Model ----
(***************************************************************************)
(* Model of editor/src/messages/portfolio/document/node_graph/             *)
(* node_properties.rs: the Properties panel's type-directed widget         *)
(* builders, the callbacks they bind and the messages those emit.          *)
(*                                                                         *)
(* Three specifications share the module:                                  *)
(*   Spec        the panel of one node: build, edit, apply (Fill,          *)
(*               Rectangle, Grid and single catalog slots);                *)
(*   SpecText    the free-text list controls: display, type, live update;  *)
(*   SpecResolve type resolution and catalog dispatch for one slot of a    *)
(*               node (generate_node_properties / property_from_type).     *)
(***************************************************************************)
EXTENDS Integers, Sequences, FiniteSets, TLC

VARIABLES
    \* ---- SpecText: one free-text control bound to one slot
    tctl,      \* which builder made the control
    tval,      \* the slot's current TaggedValue
    tfield,    \* the text in the field (a sequence of characters)
    ttoks,     \* the tokens the user typed to make that text
    tmsg,      \* the message the last live update produced
    tpc,       \* "built" | "typed" | "emitted" | "applied"
    \* ---- Spec: the panel of one node
    node,      \* [kind, inputs]: the document node in the graph store
    snap,      \* the inputs the current panel's closures captured
    ctl,       \* the control whose callback produced msg
    msg,       \* the message the last callback produced
    pc,        \* "fresh" | "emitted" | "stale"
    \* ---- SpecResolve: one slot of one node
    rctx,      \* what the graph store answers for (node, slot)
    rcands,    \* the candidate types of the slot, one per signature
    rout,      \* the rows generate_node_properties made for the slot
    rpc        \* "start" | "done"

textVars == <<tctl, tval, tfield, ttoks, tmsg, tpc>>
panelVars == <<node, snap, ctl, msg, pc>>
resVars == <<rctx, rcands, rout, rpc>>
vars == <<tctl, tval, tfield, ttoks, tmsg, tpc, node, snap, ctl, msg, pc, rctx, rcands, rout, rpc>>

(***************************************************************************)
(* Bounds of the model.                                                    *)
(***************************************************************************)
MaxTokens == 4      \* tokens in a typed text
MaxListLen == 3     \* elements of a float list / point list held by a slot
MaxExposed == 1     \* slots of the selected node exposed at a time
MaxCands == 3       \* overload signatures registered for a polymorphic node
MaxSlots == 2       \* slots after the primary input of a node shown through the slot loop
MaxExprLen == 3       \* characters typed into the Math expression field
MaxWrap == 2          \* function-of and future-of wrappers around a type

(***************************************************************************)
(* f64.  A float is <<s, m, e>>: sign s (1 = negative), decimal mantissa m *)
(* and decimal exponent e, standing for (-1)^s * m * 10^-e, kept           *)
(* normalised (e = 0 or m not a multiple of 10).  Short decimals are       *)
(* exactly the values on which f64's Display and FromStr are inverse, and  *)
(* keeping the sign apart keeps -0.0, which Display prints as "-0".        *)
(***************************************************************************)
F(n) == IF n < 0 THEN <<1, -n, 0>> ELSE <<0, n, 0>>
Fd(n, e) == IF n < 0 THEN <<1, -n, e>> ELSE <<0, n, e>>
NegZero == <<1, 0, 0>>

RECURSIVE Normalize(_)
Normalize(f) ==
    IF f[3] > 0 /\ f[2] % 10 = 0
    THEN Normalize(<<f[1], f[2] \div 10, f[3] - 1>>)
    ELSE f

RECURSIVE Pow10(_)
Pow10(e) == IF e = 0 THEN 1 ELSE 10 * Pow10(e - 1)

Digits == {"0", "1", "2", "3", "4", "5", "6", "7", "8", "9"}
DigitChar == <<"0", "1", "2", "3", "4", "5", "6", "7", "8", "9">>
DigitVal(c) == CHOOSE d \in 0..9 : DigitChar[d + 1] = c

RECURSIVE NatToText(_)
NatToText(n) ==
    IF n < 10 THEN <<DigitChar[n + 1]>>
    ELSE NatToText(n \div 10) \o <<DigitChar[(n % 10) + 1]>>

RECURSIVE FracToText(_, _)
\* the e digits of m < 10^e, leading zeros kept
FracToText(m, e) ==
    IF e = 0 THEN <<>>
    ELSE FracToText(m \div 10, e - 1) \o <<DigitChar[(m % 10) + 1]>>

\* f64's Display (v.to_string()): no exponent form, "-0" for negative zero
to_string(f) ==
    (IF f[1] = 1 THEN <<"-">> ELSE <<>>)
    \o NatToText(f[2] \div Pow10(f[3]))
    \o (IF f[3] = 0 THEN <<>> ELSE <<".">> \o FracToText(f[2] % Pow10(f[3]), f[3]))

RECURSIVE DigitsToNat(_, _)
DigitsToNat(s, acc) ==
    IF s = <<>> THEN acc ELSE DigitsToNat(Tail(s), 10 * acc + DigitVal(Head(s)))

IndexOfDot(s) == IF \E i \in 1..Len(s) : s[i] = "."
                 THEN CHOOSE i \in 1..Len(s) : s[i] = "." /\ \A j \in 1..(i - 1) : s[j] # "."
                 ELSE 0

\* str::parse::<f64> on a token over digits, '.', '+', '-' and letters that
\* spell neither an exponent nor inf/nan: Some(<<f>>) as <<f>>, Err as <<>>.
ParseF64(tok) ==
    LET signed == tok # <<>> /\ Head(tok) \in {"+", "-"}
        neg == tok # <<>> /\ Head(tok) = "-"
        body == IF signed THEN Tail(tok) ELSE tok
        dot == IndexOfDot(body)
        ip == IF dot = 0 THEN body ELSE SubSeq(body, 1, dot - 1)
        fp == IF dot = 0 THEN <<>> ELSE SubSeq(body, dot + 1, Len(body))
        wellFormed == /\ \A i \in 1..Len(ip) : ip[i] \in Digits
                      /\ \A i \in 1..Len(fp) : fp[i] \in Digits
                      /\ Len(ip) + Len(fp) >= 1
    IN  IF wellFormed
        THEN <<Normalize(<<IF neg THEN 1 ELSE 0, DigitsToNat(ip \o fp, 0), Len(fp)>>)>>
        ELSE <<>>

(***************************************************************************)
(* TaggedValue and Message.                                                *)
(***************************************************************************)
TV(tag, v) == [tag |-> tag, v |-> v]
NoValue == TV("None", <<>>)

Message(type, node_id, input_index, value, msgs, set_to_exposed) ==
    [type |-> type, node_id |-> node_id, input_index |-> input_index, value |-> value,
     msgs |-> msgs, set_to_exposed |-> set_to_exposed]
SetInputValue(node_id, input_index, value) ==
    Message("SetInputValue", node_id, input_index, value, <<>>, FALSE)
NoOp == Message("NoOp", "", 0, NoValue, <<>>, FALSE)
AddTransaction == Message("AddTransaction", "", 0, NoValue, <<>>, FALSE)
Batched(msgs) == Message("Batched", "", 0, NoValue, msgs, FALSE)
ExposeInput(node_id, index, set_to_exposed) ==
    Message("ExposeInput", node_id, index, NoValue, <<>>, set_to_exposed)
NoMsg == Message("none", "", 0, NoValue, <<>>, FALSE)

\* a closure that writes the primary input whatever slot it was built for
optionally_update_value_primary(value, node_id, input_index) ==
    IF value # <<>> THEN SetInputValue(node_id, 0, value[1]) ELSE NoOp

\* optionally_update_value: `value` is the closure's result, <<>> for None
optionally_update_value(value, node_id, input_index) ==
    IF value # <<>> THEN SetInputValue(node_id, input_index, value[1]) ELSE NoOp

\* update_value: the closure always yields a value
update_value(value, node_id, input_index) ==
    optionally_update_value(<<value>>, node_id, input_index)

\* commit_value: the argument is ignored
commit_value(widget) == AddTransaction

(***************************************************************************)
(* Text: str::split, filter, join.                                         *)
(***************************************************************************)
Letters == {"a", "b", "c"}
Chars == Digits \cup Letters \cup {".", "+", "-", ",", " ", "(", ")"}
IsAlphanumeric(c) == c \in Digits \cup Letters

RECURSIVE SplitAcc(_, _, _, _)
SplitAcc(s, seps, cur, acc) ==
    IF s = <<>> THEN Append(acc, cur)
    ELSE IF Head(s) \in seps THEN SplitAcc(Tail(s), seps, <<>>, Append(acc, cur))
    ELSE SplitAcc(Tail(s), seps, Append(cur, Head(s)), acc)

\* str::split: the pieces between separators, empty pieces included
Split(s, seps) == SplitAcc(s, seps, <<>>, <<>>)

NonEmpty(toks) == SelectSeq(toks, LAMBDA t : t # <<>>)

RECURSIVE Join(_, _)
Join(strs, sep) ==
    IF strs = <<>> THEN <<>>
    ELSE IF Len(strs) = 1 THEN strs[1]
    ELSE strs[1] \o sep \o Join(Tail(strs), sep)

\* .map(parse).collect::<Result<Vec<_>, _>>().ok(): <<numbers>> or <<>>
ParseAll(toks) ==
    IF \E i \in 1..Len(toks) : ParseF64(toks[i]) = <<>>
    THEN <<>>
    ELSE <<[i \in 1..Len(toks) |-> ParseF64(toks[i])[1]]>>

\* vec_f64_from_string splitting on commas only
vec_f64_from_string_commas(string) ==
    LET numbers == ParseAll(NonEmpty(Split(string, {","})))
    IN  IF numbers = <<>> THEN <<>> ELSE <<TV("VecF64", numbers[1])>>

\* vec_f64_input's from_string
vec_f64_from_string(string) ==
    LET numbers == ParseAll(NonEmpty(Split(string, {",", " "})))
    IN  IF numbers = <<>> THEN <<>> ELSE <<TV("VecF64", numbers[1])>>

\* vec_f64_input's displayed text
vec_f64_display(x) == Join([i \in 1..Len(x) |-> to_string(x[i])], <<",", " ">>)

\* chunks_exact(2): whole pairs only, a trailing odd element is dropped
chunks_exact2(numbers) ==
    [i \in 1..(Len(numbers) \div 2) |-> <<numbers[2 * i - 1], numbers[2 * i]>>]

vec_dvec2_separators == {c \in Chars : ~IsAlphanumeric(c) /\ c \notin {".", "+", "-"}}

\* vec_dvec2_input's from_string
vec_dvec2_from_string(string) ==
    LET numbers == ParseAll(NonEmpty(Split(string, vec_dvec2_separators)))
    IN  IF numbers = <<>> THEN <<>> ELSE <<TV("VecDVec2", chunks_exact2(numbers[1]))>>

\* vec_dvec2_input's displayed text
vec_dvec2_display(x) ==
    Join([i \in 1..Len(x) |->
            <<"(">> \o to_string(x[i][1]) \o <<",", " ">> \o to_string(x[i][2]) \o <<")">>],
         <<",", " ">>)

\* a conversion that keeps the numbers given and fills up with zeros
try_into_array4_padded(v) ==
    [i \in 1..4 |-> IF i <= Len(v) THEN v[i] ELSE F(0)]

\* Box<[f64; 4]>::try_from(boxed slice).unwrap_or_default()
try_into_array4(v) == IF Len(v) = 4 THEN v ELSE <<F(0), F(0), F(0), F(0)>>

\* rectangle_properties' from_string (the individual-radius text field)
rectangle_from_string(string) ==
    LET numbers == ParseAll(NonEmpty(Split(string, {",", " "})))
    IN  IF numbers = <<>> THEN <<>> ELSE <<TV("F64Array4", try_into_array4(numbers[1]))>>

\* the individual-radius text field's displayed text
rectangle_display(individual_val) ==
    Join([i \in 1..Len(individual_val) |-> to_string(individual_val[i])], <<",", " ">>)

(***************************************************************************)
(* The document node and its inputs.  inputs is a function on 0..n-1;      *)
(* an input is NodeInput::Value {tagged_value, exposed} or a wire          *)
(* (NodeInput::Node), which holds no value.                                *)
(***************************************************************************)
ValueInput(value, exposed) == [kind |-> "Value", value |-> value, exposed |-> exposed]
WireInput == [kind |-> "Node", value |-> NoValue, exposed |-> TRUE]

\* Vec::get: <<input>> or <<>>
inputs_get(document_node, index) ==
    IF index \in DOMAIN document_node.inputs THEN <<document_node.inputs[index]>> ELSE <<>>

\* NodeInput::as_value: the value of a Value input, exposed or not
as_value(input) == IF input.kind = "Value" THEN <<input.value>> ELSE <<>>

\* NodeInput::as_non_exposed_value
as_non_exposed_value(input) ==
    IF input.kind = "Value" /\ ~input.exposed THEN <<input.value>> ELSE <<>>

\* NodeInput::is_exposed
is_exposed(input) == input.exposed

(***************************************************************************)
(* Widgets.  A widget is a record; an interactive one carries on_update    *)
(* (the closure it was bound with, as data: which closure, for which node  *)
(* and slot, and what it captured) and on_commit (whether commit_value was *)
(* bound).  Menu widgets carry their entries, each with its own callbacks. *)
(***************************************************************************)
NoCallback == [fn |-> "none", node_id |-> "", index |-> 0, cap |-> <<>>, out |-> NoMsg]
Closure(fn, node_id, index, cap) ==
    [fn |-> fn, node_id |-> node_id, index |-> index, cap |-> cap, out |-> NoMsg]
\* a closure that ignores its argument and yields the message `out`
Const(out) == [fn |-> "const", node_id |-> "", index |-> 0, cap |-> <<>>, out |-> out]

NoOption == <<>>
Some(x) == <<x>>
unwrap_or(opt, x) == IF opt = <<>> THEN x ELSE opt[1]

NumberInputDefault ==
    [min |-> NoOption, max |-> NoOption, mode |-> "Increment", unit |-> "",
     is_integer |-> FALSE, disabled |-> FALSE, label |-> ""]

Widget(kind) ==
    [widget |-> kind, text |-> "", tooltip |-> <<>>, builder |-> "",
     on_update |-> NoCallback, on_commit |-> FALSE, entries |-> <<>>,
     disabled |-> FALSE, shown |-> NoValue, props |-> NumberInputDefault]

Separator(type) == [Widget("Separator") EXCEPT !.text = type]
TextLabel(text) == [Widget("TextLabel") EXCEPT !.text = text]
MenuEntry(label, on_update, on_commit) ==
    [label |-> label, on_update |-> on_update, on_commit |-> on_commit]
Row(widgets) == [widgets |-> widgets, tooltip |-> ""]
with_tooltip(row, tooltip) == [row EXCEPT !.tooltip = tooltip]

InteractiveKinds ==
    {"NumberInput", "TextInput", "TextAreaInput", "CheckboxInput", "ColorInput", "FontInput",
     "CurveInput", "RadioInput", "DropdownInput", "IconButton", "ParameterExposeButton"}

\* expose_widget
expose_widget(node_id, index, data_type, exposed) ==
    [Widget("ParameterExposeButton") EXCEPT
        !.text = data_type,
        !.shown = TV("Bool", <<exposed>>),
        !.tooltip = <<"Expose this parameter as a node input in the graph">>,
        !.builder = "expose_widget",
        !.on_update = Const(ExposeInput(node_id, index, ~exposed))]

\* add_blank_assist
add_blank_assist(widgets) == widgets \o <<Separator("Section"), Separator("Unrelated")>>
no_assist(widgets) == widgets

\* start_widgets
start_widgets(document_node, node_id, index, name, description, data_type, blank_assist) ==
    LET input == inputs_get(document_node, index)
    IN  IF input = <<>> THEN <<>>
        ELSE LET widgets == <<expose_widget(node_id, index, data_type, is_exposed(input[1])),
                              [TextLabel(name) EXCEPT !.tooltip = <<description>>]>>
             IN  IF blank_assist THEN add_blank_assist(widgets) ELSE widgets

\* the value a builder matches on: <<value>> of a non-exposed Value input, else <<>>
Held(document_node, index) ==
    LET input == inputs_get(document_node, index)
    IN  IF input = <<>> THEN <<>> ELSE as_non_exposed_value(input[1])
HeldTag(document_node, index) ==
    LET h == Held(document_node, index) IN IF h = <<>> THEN "" ELSE h[1].tag

Control(kind, builder, shown, on_update, on_commit) ==
    [Widget(kind) EXCEPT !.builder = builder, !.shown = shown,
                         !.on_update = on_update, !.on_commit = on_commit]

\* text_widget
text_widget(document_node, node_id, index, name, description, blank_assist) ==
    LET widgets == start_widgets(document_node, node_id, index, name, description, "General", blank_assist)
    IN  IF inputs_get(document_node, index) = <<>> THEN <<>>
        ELSE IF HeldTag(document_node, index) = "String"
        THEN widgets \o <<Separator("Unrelated"),
                          Control("TextInput", "text_widget", Held(document_node, index)[1],
                                  Closure("String", node_id, index, <<>>), TRUE)>>
        ELSE widgets

\* text_area_widget
text_area_widget(document_node, node_id, index, name, description, blank_assist) ==
    LET widgets == start_widgets(document_node, node_id, index, name, description, "General", blank_assist)
    IN  IF inputs_get(document_node, index) = <<>> THEN <<>>
        ELSE IF HeldTag(document_node, index) = "String"
        THEN widgets \o <<Separator("Unrelated"),
                          Control("TextAreaInput", "text_area_widget", Held(document_node, index)[1],
                                  Closure("String", node_id, index, <<>>), TRUE)>>
        ELSE widgets

\* bool_widget
bool_widget(document_node, node_id, index, name, description, checkbox_input, blank_assist) ==
    LET widgets == start_widgets(document_node, node_id, index, name, description, "General", blank_assist)
    IN  IF inputs_get(document_node, index) = <<>> THEN <<>>
        ELSE IF HeldTag(document_node, index) = "Bool"
        THEN widgets \o <<Separator("Unrelated"),
                          Control("CheckboxInput", "bool_widget", Held(document_node, index)[1],
                                  Closure("Bool", node_id, index, <<>>), TRUE)>>
        ELSE widgets

\* NumberControl ignoring the properties it is given
NumberControl_default_props(builder, number_props, shown, on_update) ==
    Control("NumberInput", builder, shown, on_update, TRUE)

\* number_props.value(..).on_update(..).on_commit(commit_value)
NumberControl(builder, number_props, shown, on_update) ==
    [Control("NumberInput", builder, shown, on_update, TRUE) EXCEPT
        !.props = number_props, !.disabled = number_props.disabled]

\* number_widget
number_widget(document_node, node_id, index, name, description, number_props, blank_assist) ==
    LET widgets == start_widgets(document_node, node_id, index, name, description, "Number", blank_assist)
        tag == HeldTag(document_node, index)
        x == Held(document_node, index)[1]
    IN  IF inputs_get(document_node, index) = <<>> THEN <<>>
        ELSE CASE tag = "F64" ->
                    widgets \o <<Separator("Unrelated"),
                                 NumberControl("number_widget", number_props, x,
                                               Closure("F64", node_id, index, <<>>))>>
               [] tag = "U32" ->
                    widgets \o <<Separator("Unrelated"),
                                 NumberControl("number_widget", number_props, x,
                                               Closure("U32", node_id, index, <<>>))>>
               [] tag = "U64" ->
                    widgets \o <<Separator("Unrelated"),
                                 NumberControl("number_widget", number_props, x,
                                               Closure("U64", node_id, index, <<>>))>>
               [] tag = "OptionalF64" ->
                    widgets \o <<Separator("Unrelated"), Separator("Related"),
                                 Control("CheckboxInput", "number_widget", TV("Bool", <<x.v # <<>>>>),
                                         Closure("toggle_enabled", node_id, index, <<>>), TRUE),
                                 Separator("Related"), Separator("Unrelated"),
                                 [NumberControl("number_widget", number_props, x,
                                                Closure("OptionalF64", node_id, index, <<>>))
                                    EXCEPT !.disabled = (x.v = <<>>)]>>
               [] tag = "DVec2" ->
                    \* shows dvec2.y and writes a scalar
                    widgets \o <<Separator("Unrelated"),
                                 NumberControl("number_widget", number_props, TV("F64", <<x.v[2]>>),
                                               Closure("F64", node_id, index, <<>>))>>
               [] OTHER -> widgets

(***************************************************************************)
(* Float constants that are not short decimals: e < 0 marks them.          *)
(***************************************************************************)
\* (1_u64 << f64::MANTISSA_DIGITS) as f64
MantissaLimit == <<0, 53, -1>>
NegMantissaLimit == <<1, 53, -1>>
Infinity == <<0, 0, -2>>
NegInfinity == <<1, 0, -2>>
\* f64::from(u32::MAX)
U32MaxFloat == <<0, 32, -3>>

\* `x as u32` / `x as u64` on a short decimal: toward zero, negatives saturate at 0
as_unsigned(f) == IF f[1] = 1 THEN 0 ELSE f[2] \div Pow10(f[3])
\* `x as i32` on a short decimal: toward zero
as_i32(f) == IF f[1] = 1 THEN -(f[2] \div Pow10(f[3])) ELSE f[2] \div Pow10(f[3])

Vec2Control(builder, shown, label, unit, min, is_integer, on_update) ==
    [Control("NumberInput", builder, shown, on_update, TRUE) EXCEPT
        !.props = [NumberInputDefault EXCEPT !.label = label, !.unit = unit, !.min = Some(min),
                                              !.max = Some(MantissaLimit), !.is_integer = is_integer]]

\* vec2_widget; `assist` names the function applied to the first widgets
vec2_widget(document_node, node_id, index, name, description, x, y, unit, min, assist) ==
    LET started == start_widgets(document_node, node_id, index, name, description, "Number", FALSE)
        widgets == IF assist = "add_blank_assist" THEN add_blank_assist(started) ELSE started
        tag == HeldTag(document_node, index)
        v == Held(document_node, index)[1]
        lo == unwrap_or(min, NegMantissaLimit)
    IN  IF inputs_get(document_node, index) = <<>> THEN Row(<<>>)
        ELSE CASE tag = "DVec2" ->
                    Row(widgets \o
                        <<Separator("Unrelated"),
                          Vec2Control("vec2_widget", TV("F64", <<v.v[1]>>), x, unit, lo, FALSE,
                                      Closure("DVec2_x", node_id, index, v.v)),
                          Separator("Related"),
                          Vec2Control("vec2_widget", TV("F64", <<v.v[2]>>), y, unit, lo, FALSE,
                                      Closure("DVec2_y", node_id, index, v.v))>>)
               [] tag = "IVec2" ->
                    Row(widgets \o
                        <<Separator("Unrelated"),
                          Vec2Control("vec2_widget", TV("F64", <<F(v.v[1])>>), x, unit, lo, TRUE,
                                      Closure("IVec2_x", node_id, index, v.v)),
                          Separator("Related"),
                          Vec2Control("vec2_widget", TV("F64", <<F(v.v[2])>>), y, unit, lo, TRUE,
                                      Closure("IVec2_y", node_id, index, v.v))>>)
               [] tag = "UVec2" ->
                    Row(widgets \o
                        <<Separator("Unrelated"),
                          Vec2Control("vec2_widget", TV("F64", <<F(v.v[1])>>), x, unit, unwrap_or(min, F(0)), TRUE,
                                      Closure("UVec2_x", node_id, index, v.v)),
                          Separator("Related"),
                          Vec2Control("vec2_widget", TV("F64", <<F(v.v[2])>>), y, unit, unwrap_or(min, F(0)), TRUE,
                                      Closure("UVec2_y", node_id, index, v.v))>>)
               [] tag = "F64" ->
                    \* a scalar is shown twice and written back as a vector
                    Row(widgets \o
                        <<Separator("Unrelated"),
                          Vec2Control("vec2_widget", v, x, unit, lo, FALSE,
                                      Closure("F64_x", node_id, index, v.v)),
                          Separator("Related"),
                          Vec2Control("vec2_widget", v, y, unit, lo, FALSE,
                                      Closure("F64_y", node_id, index, v.v))>>)
               [] OTHER -> Row(widgets)

\* vec_f64_input: the TextInput is bound with on_update only
vec_f64_input(document_node, node_id, index, name, description, text_input, blank_assist) ==
    LET widgets == start_widgets(document_node, node_id, index, name, description, "Number", blank_assist)
    IN  IF inputs_get(document_node, index) = <<>> THEN <<>>
        ELSE IF HeldTag(document_node, index) = "VecF64"
        THEN widgets \o <<Separator("Unrelated"),
                          [Control("TextInput", "vec_f64_input", Held(document_node, index)[1],
                                   Closure("vec_f64_from_string", node_id, index, <<>>), FALSE)
                             EXCEPT !.text = text_input]>>
        ELSE widgets

\* vec_dvec2_input: the TextInput is bound with on_update only
vec_dvec2_input(document_node, node_id, index, name, description, text_props, blank_assist) ==
    LET widgets == start_widgets(document_node, node_id, index, name, description, "Number", blank_assist)
    IN  IF inputs_get(document_node, index) = <<>> THEN <<>>
        ELSE IF HeldTag(document_node, index) = "VecDVec2"
        THEN widgets \o <<Separator("Unrelated"),
                          [Control("TextInput", "vec_dvec2_input", Held(document_node, index)[1],
                                   Closure("vec_dvec2_from_string", node_id, index, <<>>), FALSE)
                             EXCEPT !.text = text_props]>>
        ELSE widgets

\* font_inputs: <<first_widgets, second_widgets>>, the second <<>> for None
font_inputs(document_node, node_id, index, name, description, blank_assist) ==
    LET first_widgets == start_widgets(document_node, node_id, index, name, description, "General", blank_assist)
        font == Held(document_node, index)[1]
        picker == Control("FontInput", "font_inputs", font, Closure("Font", node_id, index, <<>>), TRUE)
    IN  IF inputs_get(document_node, index) = <<>> THEN <<<<>>, <<>>>>
        ELSE IF HeldTag(document_node, index) = "Font"
        THEN <<first_widgets \o <<Separator("Unrelated"), picker>>,
               add_blank_assist(<<TextLabel("")>>)
                 \o <<Separator("Unrelated"), [picker EXCEPT !.text = "is_style_picker"]>>>>
        ELSE <<first_widgets, <<>>>>

\* vector_widget, raster_widget, group_widget: a label, no editor
graph_data_widget(document_node, node_id, index, name, description, blank_assist, data_type, text) ==
    start_widgets(document_node, node_id, index, name, description, data_type, blank_assist)
        \o <<Separator("Unrelated"), TextLabel(text)>>
vector_widget(document_node, node_id, index, name, description, blank_assist) ==
    graph_data_widget(document_node, node_id, index, name, description, blank_assist,
                      "VectorData", "Vector data is supplied through the node graph")
raster_widget(document_node, node_id, index, name, description, blank_assist) ==
    graph_data_widget(document_node, node_id, index, name, description, blank_assist,
                      "Raster", "Raster data is supplied through the node graph")
group_widget(document_node, node_id, index, name, description, blank_assist) ==
    graph_data_widget(document_node, node_id, index, name, description, blank_assist,
                      "Group", "Group data is supplied through the node graph")

(***************************************************************************)
(* The enumeration widgets.  Each builder matches its own TaggedValue      *)
(* variant and offers one entry per enumerator, bound with                 *)
(* update_value(|_| Variant(v)) and commit_value.                          *)
(***************************************************************************)
enum_entries(tag, variants, node_id, index) ==
    [i \in 1..Len(variants) |->
        MenuEntry(variants[i], Const(update_value(TV(tag, <<variants[i]>>), node_id, index)), TRUE)]

enum_widget(document_node, node_id, index, name, description, blank_assist, builder, tag, variants, kind, disabled) ==
    LET widgets == start_widgets(document_node, node_id, index, name, description, "General", blank_assist)
    IN  IF inputs_get(document_node, index) = <<>> THEN Row(<<>>)
        ELSE IF HeldTag(document_node, index) = tag
        THEN Row(widgets \o
                 <<Separator("Unrelated"),
                   [Control(kind, builder, Held(document_node, index)[1], NoCallback, FALSE) EXCEPT
                       !.entries = enum_entries(tag, variants, node_id, index),
                       !.disabled = disabled]>>)
        ELSE Row(widgets)

color_channel(document_node, node_id, index, name, description, blank_assist) ==
    with_tooltip(
    enum_widget(document_node, node_id, index, name, description, blank_assist,
                "color_channel", "RedGreenBlue", <<"Red", "Green", "Blue">>, "DropdownInput", FALSE),
    "Color Channel")

real_time_mode(document_node, node_id, index, name, description, blank_assist) ==
    with_tooltip(
    enum_widget(document_node, node_id, index, name, description, blank_assist,
                "real_time_mode", "RealTimeMode", <<"Utc", "Year", "Hour", "Minute", "Second", "Millisecond">>, "DropdownInput", FALSE),
    "Real Time Mode")

rgba_channel(document_node, node_id, index, name, description, blank_assist) ==
    with_tooltip(
    enum_widget(document_node, node_id, index, name, description, blank_assist,
                "rgba_channel", "RedGreenBlueAlpha", <<"Red", "Green", "Blue", "Alpha">>, "DropdownInput", FALSE),
    "Color Channel")

xy_components(document_node, node_id, index, name, description, blank_assist) ==
    with_tooltip(
    enum_widget(document_node, node_id, index, name, description, blank_assist,
                "xy_components", "XY", <<"X", "Y">>, "DropdownInput", FALSE),
    "X or Y Component of Vector2")

noise_type(document_node, node_id, index, name, description, blank_assist) ==
    with_tooltip(
    enum_widget(document_node, node_id, index, name, description, blank_assist,
                "noise_type", "NoiseType", <<"Perlin", "Cellular", "WhiteNoise">>, "DropdownInput", FALSE),
    "Style of noise pattern")

fractal_type(document_node, node_id, index, name, description, blank_assist, disabled) ==
    with_tooltip(
    enum_widget(document_node, node_id, index, name, description, blank_assist,
                "fractal_type", "FractalType", <<"None", "FBm", "PingPong">>, "DropdownInput", disabled),
    "Style of layered levels of the noise pattern")

cellular_distance_function(document_node, node_id, index, name, description, blank_assist, disabled) ==
    with_tooltip(
    enum_widget(document_node, node_id, index, name, description, blank_assist,
                "cellular_distance_function", "CellularDistanceFunction", <<"Euclidean", "Manhattan">>, "DropdownInput", disabled),
    "Distance function used by the cellular noise")

cellular_return_type(document_node, node_id, index, name, description, blank_assist, disabled) ==
    with_tooltip(
    enum_widget(document_node, node_id, index, name, description, blank_assist,
                "cellular_return_type", "CellularReturnType", <<"CellValue", "Nearest">>, "DropdownInput", disabled),
    "Return type of the cellular noise")

domain_warp_type(document_node, node_id, index, name, description, blank_assist, disabled) ==
    with_tooltip(
    enum_widget(document_node, node_id, index, name, description, blank_assist,
                "domain_warp_type", "DomainWarpType", <<"None", "OpenSimplex2">>, "DropdownInput", disabled),
    "Type of domain warp")

blend_mode(document_node, node_id, index, name, description, blank_assist) ==
    with_tooltip(
    enum_widget(document_node, node_id, index, name, description, blank_assist,
                "blend_mode", "BlendMode", <<"Normal", "Multiply", "Screen">>, "DropdownInput", FALSE),
    "Formula used for blending")

luminance_calculation(document_node, node_id, index, name, description, blank_assist) ==
    with_tooltip(
    enum_widget(document_node, node_id, index, name, description, blank_assist,
                "luminance_calculation", "LuminanceCalculation", <<"SRGB", "Perceptual">>, "DropdownInput", FALSE),
    "Formula used to calculate the luminance of a pixel")

boolean_operation_radio_buttons(document_node, node_id, index, name, description, blank_assist) ==
    enum_widget(document_node, node_id, index, name, description, blank_assist,
                "boolean_operation_radio_buttons", "BooleanOperation", <<"Union", "SubtractFront", "Intersect">>, "RadioInput", FALSE)

grid_type_widget(document_node, node_id, index, name, description, blank_assist) ==
    enum_widget(document_node, node_id, index, name, description, blank_assist,
                "grid_type_widget", "GridType", <<"Rectangular", "Isometric">>, "RadioInput", FALSE)

line_cap_widget(document_node, node_id, index, name, description, blank_assist) ==
    enum_widget(document_node, node_id, index, name, description, blank_assist,
                "line_cap_widget", "LineCap", <<"Butt", "Round", "Square">>, "RadioInput", FALSE)

line_join_widget(document_node, node_id, index, name, description, blank_assist) ==
    enum_widget(document_node, node_id, index, name, description, blank_assist,
                "line_join_widget", "LineJoin", <<"Miter", "Bevel", "Round">>, "RadioInput", FALSE)

arc_type_widget(document_node, node_id, index, name, description, blank_assist) ==
    enum_widget(document_node, node_id, index, name, description, blank_assist,
                "arc_type_widget", "ArcType", <<"Open", "Closed", "PieSlice">>, "RadioInput", FALSE)

centroid_widget(document_node, node_id, index) ==
    enum_widget(document_node, node_id, index, "Centroid Type", "TODO", TRUE,
                "centroid_widget", "CentroidType", <<"Area", "Length">>, "RadioInput", FALSE)

(***************************************************************************)
(* Colors.  A color is a name; FillChoice is None, Solid(color) or         *)
(* Gradient(stops).                                                        *)
(***************************************************************************)
ColorDefault == "black"
StopsDefault == <<"black", "white">>
FillChoice(kind, color, stops) == [kind |-> kind, color |-> color, stops |-> stops]
FillChoiceNone == FillChoice("None", "", <<>>)
FillChoiceSolid(color) == FillChoice("Solid", color, <<>>)
FillChoiceGradient(stops) == FillChoice("Gradient", "", stops)
\* FillChoice::as_solid / as_gradient
as_solid(choice) == IF choice.kind = "Solid" THEN Some(choice.color) ELSE NoOption
as_gradient_stops(choice) == IF choice.kind = "Gradient" THEN Some(choice.stops) ELSE NoOption

\* a builder that indexes document_node.inputs[index] out of range panics
Panicked == [widgets |-> <<>>, tooltip |-> "panicked: index out of bounds"]
is_panicked(row) == row.tooltip = Panicked.tooltip

\* color_widget
color_widget(document_node, node_id, index, name, description, color_button, blank_assist) ==
    LET widgets == start_widgets(document_node, node_id, index, name, description, "General", blank_assist)
        tag == HeldTag(document_node, index)
        fn == CASE tag = "Color" -> "Color"
                [] tag = "OptionalColor" -> "OptionalColor"
                [] tag = "GradientStops" -> "GradientStops"
                [] OTHER -> ""
    IN  IF index \notin DOMAIN document_node.inputs THEN Panicked
        ELSE IF Held(document_node, index) = <<>> THEN Row(widgets)
        ELSE IF fn = "" THEN Row(widgets \o <<Separator("Unrelated")>>)
        ELSE Row(widgets \o
                 <<Separator("Unrelated"),
                   [Control("ColorInput", "color_widget", Held(document_node, index)[1],
                            Closure(fn, node_id, index, <<>>), TRUE) EXCEPT !.text = color_button]>>)

\* curves_widget
curves_widget(document_node, node_id, index, name, description, blank_assist) ==
    LET widgets == start_widgets(document_node, node_id, index, name, description, "General", blank_assist)
    IN  IF inputs_get(document_node, index) = <<>> THEN Row(<<>>)
        ELSE IF HeldTag(document_node, index) = "Curve"
        THEN Row(widgets \o <<Separator("Unrelated"),
                              Control("CurveInput", "curves_widget", Held(document_node, index)[1],
                                      Closure("Curve", node_id, index, <<>>), TRUE)>>)
        ELSE Row(widgets)

(***************************************************************************)
(* Footprint: <<x, y, w, h, rx, ry>>, the top-left corner, the bounds and  *)
(* the resolution, in whole pixels.  Every control recomputes the whole    *)
(* value: transform from (scale, offset), resolution from the oversampling *)
(* ratio resolution / bounds captured when the panel was built.            *)
(***************************************************************************)
Max2(a, b) == IF a > b THEN a ELSE b
Min2(a, b) == IF a < b THEN a ELSE b
FootprintControl(label, shown, fn, node_id, index, cap) ==
    [Control("NumberInput", "footprint_widget", TV("F64", <<F(shown)>>),
             Closure(fn, node_id, index, cap), TRUE)
        EXCEPT !.props = [NumberInputDefault EXCEPT !.label = label]]

\* footprint_widget: three rows, or none when the index is invalid
footprint_widget(document_node, node_id, index) ==
    LET location_widgets ==
            start_widgets(document_node, node_id, index, "Footprint", "TODO", "General", TRUE)
                \o <<Separator("Unrelated")>>
        scale_widgets == add_blank_assist(<<TextLabel("")>>) \o <<Separator("Unrelated")>>
        resolution_widgets == add_blank_assist(<<TextLabel("")>>) \o <<Separator("Unrelated")>>
        fp == Held(document_node, index)[1].v
    IN  IF inputs_get(document_node, index) = <<>> THEN <<>>
        ELSE IF HeldTag(document_node, index) = "Footprint"
        THEN <<Row(location_widgets \o
                   <<FootprintControl("X", fp[1], "Footprint_X", node_id, index, fp),
                     Separator("Related"),
                     FootprintControl("Y", fp[2], "Footprint_Y", node_id, index, fp)>>),
               Row(scale_widgets \o
                   <<FootprintControl("W", fp[3], "Footprint_W", node_id, index, fp),
                     Separator("Related"),
                     FootprintControl("H", fp[4], "Footprint_H", node_id, index, fp)>>),
               Row(resolution_widgets \o
                   <<FootprintControl("Resolution", (fp[5] * 100) \div fp[3], "Footprint_Resolution",
                                      node_id, index, fp)>>)>>
        ELSE <<Row(location_widgets), Row(scale_widgets), Row(resolution_widgets)>>

\* the footprint closures: x is the number typed, fp the captured footprint
footprint_update(fn, fp, x) ==
    LET n == as_i32(x)
    IN  CASE fn = "Footprint_X" -> <<n, fp[2], fp[3], fp[4], fp[5], fp[6]>>
          [] fn = "Footprint_Y" -> <<fp[1], n, fp[3], fp[4], fp[5], fp[6]>>
          [] fn = "Footprint_W" ->
                <<fp[1], fp[2], n, fp[4], Max2(0, (fp[5] * n) \div fp[3]), fp[6]>>
          [] fn = "Footprint_H" ->
                <<fp[1], fp[2], fp[3], n, fp[5], Max2(0, (fp[6] * n) \div fp[4])>>
          [] fn = "Footprint_Resolution" ->
                <<fp[1], fp[2], fp[3], fp[4],
                  Min2(4000, Max2(1, (fp[3] * n) \div 100)), Min2(4000, Max2(1, (fp[4] * n) \div 100))>>

(***************************************************************************)
(* Type descriptors.  Concrete types carry a name, an optional TypeId and  *)
(* an optional alias; Fn and Future wrap an output type (out = <<ty>>).    *)
(* Names are character sequences so that they can be ordered.              *)
(***************************************************************************)
Type(kind, name, id, alias, out) ==
    [kind |-> kind, name |-> name, id |-> id, alias |-> alias, out |-> out, arg |-> <<>>]
Concrete(name, id, alias) == Type("Concrete", name, id, alias, <<>>)
Generic(name) == Type("Generic", name, NoOption, NoOption, <<>>)
Fn(name, out) == Type("Fn", name, NoOption, NoOption, <<out>>)
Future(name, out) == Type("Future", name, NoOption, NoOption, <<out>>)
\* Type::Fn(input, output) with its input type kept
FnOf(name, input, out) == [Fn(name, out) EXCEPT !.arg = <<input>>]

(***************************************************************************)
(* The properties context: what the network interface answers for the      *)
(* selected node.  Options are sequences of length at most one.            *)
(***************************************************************************)
input_name(context, node_id, index) == context.input_name
input_description(context, node_id, index) == context.input_description
nested_network(context) == context.network
\* HashMap::get on network.nodes
nodes_get(network, node_id) ==
    IF node_id \in DOMAIN network.nodes THEN <<network.nodes[node_id]>> ELSE <<>>

\* NumberInput builder methods
mode_range(number_input) == [number_input EXCEPT !.mode = "Range"]
int(number_input) == [number_input EXCEPT !.is_integer = TRUE]
percentage(number_input) ==
    [number_input EXCEPT !.mode = "Range", !.unit = "%", !.min = Some(F(0)), !.max = Some(F(100))]

\* font_widgets.into_iter().chain(style_widgets.unwrap_or_default())
chain(pair) == pair[1] \o pair[2]
\* the last of split_last
last_row(rows) == rows[Len(rows)]

Ok(rows) == [res |-> "Ok", rows |-> rows]
Err(rows) == [res |-> "Err", rows |-> rows]
Panic == [res |-> "Panic", rows |-> <<>>]
is_ok(result) == result.res = "Ok"

\* the dropdowns property_from_type builds in place: entries bound with
\* on_update only, and no start_widgets
inline_dropdown(tag, variants, node_id, index) ==
    Row(<<[Control("DropdownInput", "property_from_type", NoValue, NoCallback, FALSE) EXCEPT
             !.entries = [i \in 1..Len(variants) |->
                            MenuEntry(variants[i],
                                      Const(update_value(TV(tag, <<variants[i]>>), node_id, index)),
                                      FALSE)]]>>)

\* fallback_row with a tooltip that does not name the type
fallback_row_unnamed(document_node, node_id, index, name, description, concrete_type) ==
    Row(start_widgets(document_node, node_id, index, name, description, "General", TRUE)
        \o <<Separator("Unrelated"),
             [TextLabel("-") EXCEPT !.tooltip =
                <<"This data can only be supplied through the node graph because no widget exists for its type:">>]>>)

\* the row for a type no alias and no catalog entry matches
fallback_row(document_node, node_id, index, name, description, concrete_type) ==
    Row(start_widgets(document_node, node_id, index, name, description, "General", TRUE)
        \o <<Separator("Unrelated"),
             [TextLabel("-") EXCEPT !.tooltip =
                <<"This data can only be supplied through the node graph because no widget exists for its type:",
                  concrete_type.name>>]>>)

Aliases ==
    {"Percentage", "SignedPercentage", "Angle", "PixelLength", "Length", "Fraction", "IntegerCount", "SeedValue", "Resolution"}
CatalogIds ==
    {"bool", "f64", "u32", "u64", "String", "Color", "Option<Color>", "DVec2", "UVec2", 
     "IVec2", "Vec<f64>", "Vec<DVec2>", "Font", "Curve", "GradientStops", "VectorDataTable", 
     "RasterFrame", "ImageFrameTable<Color>", "TextureFrameTable", "GraphicGroupTable", 
     "Footprint", "BlendMode", "RealTimeMode", "RedGreenBlue", "RedGreenBlueAlpha", "XY", 
     "NoiseType", "FractalType", "CellularDistanceFunction", "CellularReturnType", 
     "DomainWarpType", "RelativeAbsolute", "GridType", "LineCap", "LineJoin", "ArcType", 
     "FillType", "GradientType", "BooleanOperation", "CentroidType", "LuminanceCalculation"}

\* alias_of giving way to a type identity the catalog knows
alias_of_identity_first(concrete_type) ==
    IF concrete_type.id # <<>> /\ concrete_type.id[1] \in CatalogIds THEN ""
    ELSE unwrap_or(concrete_type.alias, "")

\* match concrete_type.alias.as_ref().map(|x| x.as_ref()): the alias matched first
alias_of(concrete_type) == unwrap_or(concrete_type.alias, "")

\* the alias arm and the TypeId arm of property_from_type's match
concrete_widgets(document_node, node_id, index, name, description, concrete_type, number_input, number_min, number_max) ==
    LET min(x) == unwrap_or(number_min, x)
        max(x) == unwrap_or(number_max, x)
        alias == alias_of(concrete_type)
        id == unwrap_or(concrete_type.id, "")
    IN  CASE alias = "Percentage" ->
                Row(number_widget(document_node, node_id, index, name, description, [percentage(number_input) EXCEPT !.min = Some(min(F(0))), !.max = Some(max(F(100)))], TRUE))
          [] alias = "SignedPercentage" ->
                Row(number_widget(document_node, node_id, index, name, description, [percentage(number_input) EXCEPT !.min = Some(min(F(-100))), !.max = Some(max(F(100)))], TRUE))
          [] alias = "Angle" ->
                Row(number_widget(document_node, node_id, index, name, description, [mode_range(number_input) EXCEPT !.min = Some(min(F(-180))), !.max = Some(max(F(180))), !.unit = "deg"], TRUE))
          [] alias = "PixelLength" ->
                Row(number_widget(document_node, node_id, index, name, description, [number_input EXCEPT !.min = Some(min(F(0))), !.unit = " px"], TRUE))
          [] alias = "Length" ->
                Row(number_widget(document_node, node_id, index, name, description, [number_input EXCEPT !.min = Some(min(F(0)))], TRUE))
          [] alias = "Fraction" ->
                Row(number_widget(document_node, node_id, index, name, description, [mode_range(number_input) EXCEPT !.min = Some(min(F(0))), !.max = Some(max(F(1)))], TRUE))
          [] alias = "IntegerCount" ->
                Row(number_widget(document_node, node_id, index, name, description, [int(number_input) EXCEPT !.min = Some(min(F(1)))], TRUE))
          [] alias = "SeedValue" ->
                Row(number_widget(document_node, node_id, index, name, description, [int(number_input) EXCEPT !.min = Some(min(F(0)))], TRUE))
          [] alias = "Resolution" ->
                vec2_widget(document_node, node_id, index, name, description, "W", "H", " px", Some(F(64)), "add_blank_assist")
          [] OTHER ->
             CASE id = "bool" ->
                     Row(bool_widget(document_node, node_id, index, name, description, "", TRUE))
               [] id = "f64" ->
                     Row(number_widget(document_node, node_id, index, name, description, [number_input EXCEPT !.min = Some(min(NegInfinity)), !.max = Some(max(Infinity))], TRUE))
               [] id = "u32" ->
                     Row(number_widget(document_node, node_id, index, name, description, [int(number_input) EXCEPT !.min = Some(min(F(0))), !.max = Some(max(U32MaxFloat))], TRUE))
               [] id = "u64" ->
                     Row(number_widget(document_node, node_id, index, name, description, [int(number_input) EXCEPT !.min = Some(min(F(0)))], TRUE))
               [] id = "String" ->
                     Row(text_widget(document_node, node_id, index, name, description, TRUE))
               [] id = "Color" ->
                     color_widget(document_node, node_id, index, name, description, "allow_none(false)", TRUE)
               [] id = "Option<Color>" ->
                     color_widget(document_node, node_id, index, name, description, "allow_none(true)", TRUE)
               [] id = "DVec2" ->
                     vec2_widget(document_node, node_id, index, name, description, "X", "Y", "", NoOption, "add_blank_assist")
               [] id = "UVec2" ->
                     vec2_widget(document_node, node_id, index, name, description, "X", "Y", "", Some(F(0)), "add_blank_assist")
               [] id = "IVec2" ->
                     vec2_widget(document_node, node_id, index, name, description, "X", "Y", "", NoOption, "add_blank_assist")
               [] id = "Vec<f64>" ->
                     Row(vec_f64_input(document_node, node_id, index, name, description, "", TRUE))
               [] id = "Vec<DVec2>" ->
                     Row(vec_dvec2_input(document_node, node_id, index, name, description, "", TRUE))
               [] id = "Font" ->
                     Row(chain(font_inputs(document_node, node_id, index, name, description, FALSE)))
               [] id = "Curve" ->
                     curves_widget(document_node, node_id, index, name, description, TRUE)
               [] id = "GradientStops" ->
                     color_widget(document_node, node_id, index, name, description, "allow_none(false)", TRUE)
               [] id = "VectorDataTable" ->
                     Row(vector_widget(document_node, node_id, index, name, description, TRUE))
               [] id = "RasterFrame" ->
                     Row(raster_widget(document_node, node_id, index, name, description, TRUE))
               [] id = "ImageFrameTable<Color>" ->
                     Row(raster_widget(document_node, node_id, index, name, description, TRUE))
               [] id = "TextureFrameTable" ->
                     Row(raster_widget(document_node, node_id, index, name, description, TRUE))
               [] id = "GraphicGroupTable" ->
                     Row(group_widget(document_node, node_id, index, name, description, TRUE))
               [] id = "Footprint" ->
                     last_row(footprint_widget(document_node, node_id, index))
               [] id = "BlendMode" ->
                     blend_mode(document_node, node_id, index, name, description, TRUE)
               [] id = "RealTimeMode" ->
                     real_time_mode(document_node, node_id, index, name, description, TRUE)
               [] id = "RedGreenBlue" ->
                     color_channel(document_node, node_id, index, name, description, TRUE)
               [] id = "RedGreenBlueAlpha" ->
                     rgba_channel(document_node, node_id, index, name, description, TRUE)
               [] id = "XY" ->
                     xy_components(document_node, node_id, index, name, description, TRUE)
               [] id = "NoiseType" ->
                     noise_type(document_node, node_id, index, name, description, TRUE)
               [] id = "FractalType" ->
                     fractal_type(document_node, node_id, index, name, description, TRUE, FALSE)
               [] id = "CellularDistanceFunction" ->
                     cellular_distance_function(document_node, node_id, index, name, description, TRUE, FALSE)
               [] id = "CellularReturnType" ->
                     cellular_return_type(document_node, node_id, index, name, description, TRUE, FALSE)
               [] id = "DomainWarpType" ->
                     domain_warp_type(document_node, node_id, index, name, description, TRUE, FALSE)
               [] id = "RelativeAbsolute" ->
                     inline_dropdown("RelativeAbsolute", <<"Relative", "Absolute">>, node_id, index)
               [] id = "GridType" ->
                     grid_type_widget(document_node, node_id, index, name, description, TRUE)
               [] id = "LineCap" ->
                     line_cap_widget(document_node, node_id, index, name, description, TRUE)
               [] id = "LineJoin" ->
                     line_join_widget(document_node, node_id, index, name, description, TRUE)
               [] id = "ArcType" ->
                     arc_type_widget(document_node, node_id, index, name, description, TRUE)
               [] id = "FillType" ->
                     inline_dropdown("FillType", <<"Solid", "Gradient">>, node_id, index)
               [] id = "GradientType" ->
                     inline_dropdown("GradientType", <<"Linear", "Radial">>, node_id, index)
               [] id = "BooleanOperation" ->
                     boolean_operation_radio_buttons(document_node, node_id, index, name, description, TRUE)
               [] id = "CentroidType" ->
                     centroid_widget(document_node, node_id, index)
               [] id = "LuminanceCalculation" ->
                     luminance_calculation(document_node, node_id, index, name, description, TRUE)

\* lookups with a missing description defaulted to the empty text
lookups_defaulting_description(node_id, index, context) ==
    LET name == input_name(context, node_id, index)
        description == input_description(context, node_id, index)
        network == nested_network(context)
    IN  IF Len(name) = 0 THEN <<>>
        ELSE IF Len(network) = 0 THEN <<>>
        ELSE IF Len(nodes_get(network[1], node_id)) = 0 THEN <<>>
        ELSE <<[name |-> name[1], description |-> unwrap_or(description, ""),
                document_node |-> nodes_get(network[1], node_id)[1]]>>

\* the four lookups property_from_type starts with: <<>> when any fails
lookups(node_id, index, context) ==
    LET name == input_name(context, node_id, index)
        description == input_description(context, node_id, index)
        network == nested_network(context)
    IN  IF Len(name) = 0 THEN <<>>
        ELSE IF Len(description) = 0 THEN <<>>
        ELSE IF Len(network) = 0 THEN <<>>
        ELSE IF Len(nodes_get(network[1], node_id)) = 0 THEN <<>>
        ELSE <<[name |-> name[1], description |-> description[1],
                document_node |-> nodes_get(network[1], node_id)[1]]>>

\* extra_widgets.push(widgets); Ok(extra_widgets), unless the builder panicked
pushed(widgets) == IF is_panicked(widgets) THEN Panic ELSE Ok(<<widgets>>)
\* the Footprint arm: split_last().expect(..), the rest before the last row
split_last_expect(widgets) == IF Len(widgets) = 0 THEN Panic ELSE Ok(widgets)

\* followed taking a function's input type where it has one
followed_input(ty) == IF ty.arg # <<>> THEN ty.arg[1] ELSE ty.out[1]

\* Type::Fn(_, out) and Type::Future(out): the type the recursion goes into
followed(ty) == ty.out[1]

\* property_from_type: Ok(rows), Err(rows), or a panic
RECURSIVE property_from_type(_, _, _, _, _)
property_from_type(node_id, index, ty, number_options, context) ==
    LET found == lookups(node_id, index, context)
        name == found[1].name
        description == found[1].description
        document_node == found[1].document_node
        range == number_options[3]
        number_min == IF range # <<>> THEN Some(range[1][1]) ELSE number_options[1]
        number_max == IF range # <<>> THEN Some(range[1][2]) ELSE number_options[2]
        number_input == IF range # <<>>
                        THEN [NumberInputDefault EXCEPT !.mode = "Range", !.min = Some(range[1][1]),
                                                        !.max = Some(range[1][2])]
                        ELSE NumberInputDefault
        concrete_type == ty
        matched == \/ alias_of(ty) \in Aliases
                   \/ (ty.id # <<>> /\ ty.id[1] \in CatalogIds)
        footprint == alias_of(ty) \notin Aliases /\ ty.id = <<"Footprint">>
    IN  IF Len(found) = 0 THEN Err(<<>>)
        ELSE CASE ty.kind = "Concrete" ->
                    IF ~matched
                    THEN Err(<<fallback_row(document_node, node_id, index, name, description,
                                            concrete_type)>>)
                    ELSE IF footprint
                    THEN split_last_expect(footprint_widget(document_node, node_id, index))
                    ELSE pushed(concrete_widgets(document_node, node_id, index, name, description,
                                                 concrete_type, number_input, number_min, number_max))
               [] ty.kind = "Generic" -> Ok(<<Row(<<TextLabel("Generic type (not supported)")>>)>>)
               [] ty.kind = "Fn" -> property_from_type(node_id, index, followed(ty), number_options, context)
               [] ty.kind = "Future" -> property_from_type(node_id, index, followed(ty), number_options, context)

(***************************************************************************)
(* Fill values.  A gradient is [stops, gradient_type, start, end]; a fill  *)
(* is None, Solid(color) or Gradient(gradient).                            *)
(***************************************************************************)
Gradient(stops, gradient_type, start, end) ==
    [stops |-> stops, gradient_type |-> gradient_type, start |-> start, end |-> end]
GradientDefault == Gradient(StopsDefault, "Linear", <<0, 0>>, <<1, 0>>)
Fill(kind, color, gradient) == [kind |-> kind, color |-> color, gradient |-> gradient]
FillNone == Fill("None", "", GradientDefault)
FillSolid(color) == Fill("Solid", color, GradientDefault)
FillGradient(gradient) == Fill("Gradient", "", gradient)

\* Fill::as_gradient
as_gradient(fill) == IF fill.kind = "Gradient" THEN Some(fill.gradient) ELSE NoOption
\* From<Option<Color>> for Fill
fill_from_optional_color(backup_color) ==
    IF backup_color = <<>> THEN FillNone ELSE FillSolid(backup_color[1])
\* From<Fill> for FillChoice
fill_choice_from(fill) ==
    CASE fill.kind = "None" -> FillChoiceNone
      [] fill.kind = "Solid" -> FillChoiceSolid(fill.color)
      [] fill.kind = "Gradient" -> FillChoiceGradient(fill.gradient.stops)
\* FillChoice::to_fill: a gradient choice keeps the existing gradient's geometry
to_fill(choice, existing_gradient) ==
    CASE choice.kind = "None" -> FillNone
      [] choice.kind = "Solid" -> FillSolid(choice.color)
      [] choice.kind = "Gradient" ->
            FillGradient([unwrap_or(existing_gradient, GradientDefault) EXCEPT !.stops = choice.stops])
\* GradientStops::reversed
reversed(stops) == [i \in 1..Len(stops) |-> stops[Len(stops) + 1 - i]]

\* get_document_node
get_document_node(node_id, context) ==
    IF nested_network(context) = <<>> THEN <<>>
    ELSE nodes_get(nested_network(context)[1], node_id)

\* fill_swatch_update with a solid fill backed up into the gradient backup slot
fill_swatch_update_wrong_backup(fill2, x, node_id, fill_index, backup_color_index, backup_gradient_index) ==
    Batched(<<CASE fill2.kind = "None" ->
                      SetInputValue(node_id, backup_color_index, TV("OptionalColor", NoOption))
                [] fill2.kind = "Solid" ->
                      SetInputValue(node_id, backup_gradient_index, TV("OptionalColor", Some(fill2.color)))
                [] fill2.kind = "Gradient" ->
                      SetInputValue(node_id, backup_gradient_index, TV("Gradient", fill2.gradient)),
              SetInputValue(node_id, fill_index, TV("Fill", to_fill(x, as_gradient(fill2))))>>)

\* the swatch's on_update: a batch of the backup of the fill being replaced
\* and the new fill
fill_swatch_update(fill2, x, node_id, fill_index, backup_color_index, backup_gradient_index) ==
    Batched(<<CASE fill2.kind = "None" ->
                      SetInputValue(node_id, backup_color_index, TV("OptionalColor", NoOption))
                [] fill2.kind = "Solid" ->
                      SetInputValue(node_id, backup_color_index, TV("OptionalColor", Some(fill2.color)))
                [] fill2.kind = "Gradient" ->
                      SetInputValue(node_id, backup_gradient_index, TV("Gradient", fill2.gradient)),
              SetInputValue(node_id, fill_index, TV("Fill", to_fill(x, as_gradient(fill2))))>>)

\* the entries of the Solid/Gradient switch
fill_type_entries(backup_color_fill, backup_gradient_fill, node_id, fill_index) ==
    <<MenuEntry("Solid", Const(update_value(TV("Fill", backup_color_fill), node_id, fill_index)), TRUE),
      MenuEntry("Gradient", Const(update_value(TV("Fill", backup_gradient_fill), node_id, fill_index)), TRUE)>>

\* the radial orientation shown on the reverse button
orientation(gradient) ==
    IF gradient.end[1] # gradient.start[1]
    THEN gradient.end[1] > gradient.start[1]
    ELSE gradient.start[1] + gradient.start[2] < gradient.end[1] + gradient.end[2]

\* fill_properties: rows, or <<Panicked>> when a slot it indexes is missing
fill_properties(node_id, context) ==
    LET fill_index == 1
        backup_color_index == 2
        backup_gradient_index == 3
        document_node == get_document_node(node_id, context)[1]
        widgets_first_row ==
            start_widgets(document_node, node_id, fill_index, "Fill", "TODO", "General", TRUE)
        in_range == {fill_index, backup_color_index, backup_gradient_index} \subseteq DOMAIN document_node.inputs
        fill_value == as_value(document_node.inputs[fill_index])
        color_value == as_value(document_node.inputs[backup_color_index])
        gradient_value == as_value(document_node.inputs[backup_gradient_index])
        destructured == /\ fill_value # <<>> /\ fill_value[1].tag = "Fill"
                        /\ color_value # <<>> /\ color_value[1].tag = "OptionalColor"
                        /\ gradient_value # <<>> /\ gradient_value[1].tag = "Gradient"
        fill == fill_value[1].v
        backup_color == color_value[1].v
        backup_gradient == gradient_value[1].v
        fill2 == fill
        backup_color_fill == fill_from_optional_color(backup_color)
        backup_gradient_fill == FillGradient(backup_gradient)
        swatch == Control("ColorInput", "fill_properties", TV("Fill", fill),
                          Closure("fill_swatch", node_id, fill_index, <<fill2>>), TRUE)
        gradient == fill.gradient
        reverse_button ==
            [Control("IconButton", "fill_properties", NoValue,
                     Const(update_value(TV("Fill", FillGradient([gradient EXCEPT !.stops = reversed(gradient.stops)])),
                                        node_id, fill_index)), FALSE)
                EXCEPT !.text = "Reverse", !.tooltip = <<"Reverse the gradient color stops">>]
        switch_row ==
            Row((IF fill.kind = "Gradient"
                 THEN <<TextLabel(""), Separator("Unrelated"), reverse_button>>
                 ELSE add_blank_assist(<<TextLabel("")>>))
                \o <<Separator("Unrelated"),
                     [Control("RadioInput", "fill_properties",
                              TV("U32", <<IF as_gradient(fill) # <<>> THEN 1 ELSE 0>>), NoCallback, FALSE)
                        EXCEPT !.entries = fill_type_entries(backup_color_fill, backup_gradient_fill,
                                                             node_id, fill_index)]>>)
        reverse_radial_gradient_button ==
            [Control("IconButton", "fill_properties", NoValue,
                     Const(update_value(TV("Fill", FillGradient([gradient EXCEPT !.start = gradient.end,
                                                                                 !.end = gradient.start])),
                                        node_id, fill_index)), FALSE)
                EXCEPT !.text = IF orientation(gradient) THEN "ReverseRadialGradientToRight"
                                ELSE "ReverseRadialGradientToLeft",
                       !.tooltip = <<"Reverse which end the gradient radiates from">>]
        gradient_entries ==
            <<MenuEntry("Linear",
                        Const(update_value(TV("Fill", FillGradient([gradient EXCEPT !.gradient_type = "Linear"])),
                                           node_id, fill_index)), TRUE),
              MenuEntry("Radial",
                        Const(update_value(TV("Fill", FillGradient([gradient EXCEPT !.gradient_type = "Radial"])),
                                           node_id, fill_index)), TRUE)>>
        gradient_row ==
            Row((IF gradient.gradient_type = "Linear"
                 THEN add_blank_assist(<<TextLabel("")>>)
                 ELSE <<TextLabel(""), Separator("Unrelated"), reverse_radial_gradient_button>>)
                \o <<Separator("Unrelated"),
                     [Control("RadioInput", "fill_properties",
                              TV("U32", <<IF gradient.gradient_type = "Linear" THEN 0 ELSE 1>>),
                              NoCallback, FALSE)
                        EXCEPT !.entries = gradient_entries]>>)
    IN  IF get_document_node(node_id, context) = <<>> THEN <<>>
        ELSE IF ~in_range THEN <<Panicked>>
        ELSE IF ~destructured THEN <<Row(widgets_first_row)>>
        ELSE <<Row(widgets_first_row \o <<Separator("Unrelated"), swatch>>), switch_row>>
             \o (IF fill.kind = "Gradient" THEN <<gradient_row>> ELSE <<>>)

(***************************************************************************)
(* Rectangle: corner radius in one of two shapes, chosen by a flag.        *)
(***************************************************************************)
corner_rounding_type_index == 3
corner_radius_index == 4

\* the radius shown and written in uniform mode
uniform_val(input) ==
    LET value == as_non_exposed_value(input)
    IN  IF value = <<>> THEN F(0)
        ELSE CASE value[1].tag = "F64" -> value[1].v[1]
               [] value[1].tag = "F64Array4" -> value[1].v[1]
               [] OTHER -> F(0)

\* individual_val with the scalar put in the first corner only
individual_val_first_corner(input) ==
    LET value == as_non_exposed_value(input)
    IN  IF value = <<>> THEN <<F(0), F(0), F(0), F(0)>>
        ELSE CASE value[1].tag = "F64Array4" -> value[1].v
               [] value[1].tag = "F64" -> <<value[1].v[1], F(0), F(0), F(0)>>
               [] OTHER -> <<F(0), F(0), F(0), F(0)>>

\* the radii shown and written in individual mode
individual_val(input) ==
    LET value == as_non_exposed_value(input)
    IN  IF value = <<>> THEN <<F(0), F(0), F(0), F(0)>>
        ELSE CASE value[1].tag = "F64Array4" -> value[1].v
               [] value[1].tag = "F64" -> <<value[1].v[1], value[1].v[1], value[1].v[1], value[1].v[1]>>
               [] OTHER -> <<F(0), F(0), F(0), F(0)>>

\* the Uniform / Individual entries writing the flag alone
corner_rounding_entries_flag_only(input, node_id) ==
    <<MenuEntry("Uniform",
                Const(update_value(TV("Bool", <<FALSE>>), node_id, corner_rounding_type_index)), TRUE),
      MenuEntry("Individual",
                Const(update_value(TV("Bool", <<TRUE>>), node_id, corner_rounding_type_index)), TRUE)>>

\* the Uniform / Individual entries
corner_rounding_entries(input, node_id) ==
    <<MenuEntry("Uniform",
                Const(Batched(<<SetInputValue(node_id, corner_rounding_type_index, TV("Bool", <<FALSE>>)),
                                SetInputValue(node_id, corner_radius_index, TV("F64", <<uniform_val(input)>>))>>)),
                TRUE),
      MenuEntry("Individual",
                Const(Batched(<<SetInputValue(node_id, corner_rounding_type_index, TV("Bool", <<TRUE>>)),
                                SetInputValue(node_id, corner_radius_index,
                                              TV("F64Array4", individual_val(input)))>>)),
                TRUE)>>

\* rectangle_properties
rectangle_properties(node_id, context) ==
    LET size_x_index == 1
        size_y_index == 2
        clamped_index == 5
        document_node == get_document_node(node_id, context)[1]
        size_x == number_widget(document_node, node_id, size_x_index, "Size X", "TODO", NumberInputDefault, TRUE)
        size_y == number_widget(document_node, node_id, size_y_index, "Size Y", "TODO", NumberInputDefault, TRUE)
        corner_radius_row_1 ==
            start_widgets(document_node, node_id, corner_radius_index, "Corner Radius", "TODO", "Number", TRUE)
                \o <<Separator("Unrelated")>>
        corner_radius_row_2 == add_blank_assist(<<Separator("Unrelated"), TextLabel("")>>)
        flag_input == inputs_get(document_node, corner_rounding_type_index)
        flag == as_non_exposed_value(flag_input[1])
        has_flag == flag # <<>> /\ flag[1].tag = "Bool"
        is_individual == flag[1].v[1]
        input == inputs_get(document_node, corner_radius_index)
        radio_input ==
            [Control("RadioInput", "rectangle_properties", flag[1], NoCallback, FALSE)
                EXCEPT !.entries = corner_rounding_entries(input[1], node_id)]
        input_widget ==
            IF is_individual
            THEN [Control("TextInput", "rectangle_properties", TV("F64Array4", individual_val(input[1])),
                          Closure("rectangle_from_string", node_id, corner_radius_index, <<>>), FALSE)
                    EXCEPT !.text = "individual"]
            ELSE Control("NumberInput", "rectangle_properties", TV("F64", <<uniform_val(input[1])>>),
                         Closure("F64", node_id, corner_radius_index, <<>>), TRUE)
        clamped == bool_widget(document_node, node_id, clamped_index, "Clamped", "TODO", "", TRUE)
    IN  IF get_document_node(node_id, context) = <<>> THEN <<>>
        ELSE IF flag_input = <<>> THEN <<>>
        ELSE IF has_flag /\ input = <<>> THEN <<>>
        ELSE <<Row(size_x), Row(size_y),
               Row(IF has_flag THEN corner_radius_row_1 \o <<radio_input>> ELSE corner_radius_row_1),
               Row(IF has_flag THEN corner_radius_row_2 \o <<input_widget>> ELSE corner_radius_row_2),
               Row(clamped)>>

\* grid_mode taking every slot as Rectangular
grid_mode_always_rectangular(held) == "Rectangular"

\* if let Some(&TaggedValue::GridType(grid_type)) = grid_type_input.as_non_exposed_value()
grid_mode(held) == IF Len(held) = 1 /\ held[1].tag = "GridType" THEN held[1].v[1] ELSE ""

\* grid_properties
grid_properties(node_id, context) ==
    LET grid_type_index == 1
        spacing_index == 2
        angles_index == 3
        rows_index == 4
        columns_index == 5
        document_node == get_document_node(node_id, context)[1]
        grid_type == grid_type_widget(document_node, node_id, grid_type_index, "Grid Type", "TODO", TRUE)
        grid_type_input == inputs_get(document_node, grid_type_index)
        held == as_non_exposed_value(grid_type_input[1])
        mode == grid_mode(held)
        rows == number_widget(document_node, node_id, rows_index, "Rows", "TODO",
                              [NumberInputDefault EXCEPT !.min = Some(F(1))], TRUE)
        columns == number_widget(document_node, node_id, columns_index, "Columns", "TODO",
                                 [NumberInputDefault EXCEPT !.min = Some(F(1))], TRUE)
    IN  IF get_document_node(node_id, context) = <<>> THEN <<>>
        ELSE IF grid_type_input = <<>> THEN <<>>
        ELSE <<grid_type>>
             \o (CASE mode = "Rectangular" ->
                        <<vec2_widget(document_node, node_id, spacing_index, "Spacing", "TODO",
                                      "W", "H", " px", Some(F(0)), "add_blank_assist")>>
                   [] mode = "Isometric" ->
                        <<Row(number_widget(document_node, node_id, spacing_index, "Spacing", "TODO",
                                            [NumberInputDefault EXCEPT !.label = "H", !.min = Some(F(0)),
                                                                       !.unit = " px"], TRUE)),
                          vec2_widget(document_node, node_id, angles_index, "Angles", "TODO",
                                      "", "", "deg", NoOption, "add_blank_assist")>>
                   [] OTHER -> <<>>)
             \o <<Row(rows), Row(columns)>>

(***************************************************************************)
(* Stroke and Offset Path: the miter limit and the dash offset are         *)
(* disabled by what sibling slots hold.  Both builders index the sibling   *)
(* slots directly.                                                         *)
(***************************************************************************)
\* match inputs[index].as_value() { Some(VecF64(x)) => x, _ => &vec![] }
dash_lengths_of(input) ==
    LET value == as_value(input)
    IN  IF Len(value) = 1 /\ value[1].tag = "VecF64" THEN value[1].v ELSE <<>>

\* line_join_of reading every slot as Miter
line_join_always_miter(input) == "Miter"

\* match inputs[index].as_value() { Some(LineJoin(x)) => x, _ => &LineJoin::Miter }
line_join_of(input) ==
    LET value == as_value(input)
    IN  IF Len(value) = 1 /\ value[1].tag = "LineJoin" THEN value[1].v[1] ELSE "Miter"

\* stroke_properties: rows, or <<Panicked>> when a slot it indexes is missing
stroke_properties(node_id, context) ==
    LET color_index == 1
        weight_index == 2
        dash_lengths_index == 3
        dash_offset_index == 4
        line_cap_index == 5
        line_join_index == 6
        miter_limit_index == 7
        document_node == get_document_node(node_id, context)[1]
        in_range == {color_index, dash_lengths_index, line_join_index} \subseteq DOMAIN document_node.inputs
        color == color_widget(document_node, node_id, color_index, "Color", "TODO", "", TRUE)
        weight == number_widget(document_node, node_id, weight_index, "Weight", "TODO",
                                [NumberInputDefault EXCEPT !.unit = " px", !.min = Some(F(0))], TRUE)
        dash_lengths_val == dash_lengths_of(document_node.inputs[dash_lengths_index])
        dash_lengths == vec_f64_input(document_node, node_id, dash_lengths_index, "Dash Lengths", "TODO",
                                      "centered", TRUE)
        dash_offset == number_widget(document_node, node_id, dash_offset_index, "Dash Offset", "TODO",
                                     [NumberInputDefault EXCEPT !.unit = " px",
                                                                !.disabled = (Len(dash_lengths_val) = 0)], TRUE)
        line_cap == line_cap_widget(document_node, node_id, line_cap_index, "Line Cap", "TODO", TRUE)
        line_join == line_join_widget(document_node, node_id, line_join_index, "Line Join", "TODO", TRUE)
        line_join_val == line_join_of(document_node.inputs[line_join_index])
        miter_limit == number_widget(document_node, node_id, miter_limit_index, "Miter Limit", "TODO",
                                     [NumberInputDefault EXCEPT !.min = Some(F(0)),
                                                                !.disabled = (line_join_val # "Miter")], TRUE)
    IN  IF get_document_node(node_id, context) = <<>> THEN <<>>
        ELSE IF ~in_range THEN <<Panicked>>
        ELSE <<color, Row(weight), Row(dash_lengths), Row(dash_offset), line_cap, line_join, Row(miter_limit)>>

\* offset_path_properties: rows, or <<Panicked>> when the line join slot is missing
offset_path_properties(node_id, context) ==
    LET distance_index == 1
        line_join_index == 2
        miter_limit_index == 3
        document_node == get_document_node(node_id, context)[1]
        distance == number_widget(document_node, node_id, distance_index, "Offset", "TODO",
                                  [NumberInputDefault EXCEPT !.unit = " px"], TRUE)
        line_join == line_join_widget(document_node, node_id, line_join_index, "Line Join", "TODO", TRUE)
        line_join_val == line_join_of(document_node.inputs[line_join_index])
        miter_limit == number_widget(document_node, node_id, miter_limit_index, "Miter Limit", "TODO",
                                     [NumberInputDefault EXCEPT !.min = Some(F(0)),
                                                                !.disabled = (line_join_val # "Miter")], TRUE)
    IN  IF get_document_node(node_id, context) = <<>> THEN <<>>
        ELSE IF line_join_index \notin DOMAIN document_node.inputs THEN <<Panicked>>
        ELSE <<Row(distance), line_join, Row(miter_limit)>>

\* math_properties: always three rows
math_properties(node_id, context) ==
    LET expression_index == 1
        operation_b_index == 2
        document_node == get_document_node(node_id, context)[1]
        widgets == start_widgets(document_node, node_id, expression_index, "Expression", "TODO", "General", TRUE)
        expression ==
            IF inputs_get(document_node, expression_index) = <<>> THEN <<>>
            ELSE IF HeldTag(document_node, expression_index) = "String"
            THEN widgets \o <<Separator("Unrelated"),
                              [Control("TextInput", "math_properties", Held(document_node, expression_index)[1],
                                       Closure("expression", node_id, expression_index, <<>>), TRUE)
                                 EXCEPT !.text = "centered"]>>
            ELSE widgets
        operand_b == number_widget(document_node, node_id, operation_b_index, "Operand B", "TODO",
                                   NumberInputDefault, TRUE)
        operand_a_hint == <<TextLabel("(Operand A is the primary input)")>>
    IN  IF get_document_node(node_id, context) = <<>> THEN <<>>
        ELSE <<with_tooltip(Row(expression), "A math expression that may incorporate A and/or B"),
               with_tooltip(Row(operand_b), "The value of B when calculating the expression"),
               with_tooltip(Row(operand_a_hint), "A is fed by the value from the previous node")>>

(***************************************************************************)
(* Channel Mixer: slot 1 is the monochrome flag, slot 18 the output        *)
(* channel, slots 2..17 the coefficients in four groups of four.           *)
(***************************************************************************)
\* the (index, label) pairs of the four coefficient rows shifted by one slot
channels_shifted(is_monochrome, is_output_channel) ==
    <<<<3, "Red">>, <<4, "Green">>, <<5, "Blue">>, <<6, "Constant">>>>

\* match (is_monochrome, is_output_channel): the (index, label) pairs of the four coefficient rows
channels(is_monochrome, is_output_channel) ==
    CASE is_monochrome ->
            <<<<2, "Red">>, <<3, "Green">>, <<4, "Blue">>, <<5, "Constant">>>>
      [] ~is_monochrome /\ is_output_channel = "Red" ->
            <<<<6, "(Red) Red">>, <<7, "(Red) Green">>, <<8, "(Red) Blue">>, <<9, "(Red) Constant">>>>
      [] ~is_monochrome /\ is_output_channel = "Green" ->
            <<<<10, "(Green) Red">>, <<11, "(Green) Green">>, <<12, "(Green) Blue">>, <<13, "(Green) Constant">>>>
      [] ~is_monochrome /\ is_output_channel = "Blue" ->
            <<<<14, "(Blue) Red">>, <<15, "(Blue) Green">>, <<16, "(Blue) Blue">>, <<17, "(Blue) Constant">>>>

\* channel_mixer_properties: rows, or <<Panicked>> when the monochrome slot is missing.
\* number_widget replaces the default .value(Some(r.2)) by the slot's value.
channel_mixer_properties(node_id, context) ==
    LET monochrome_index == 1
        output_channel_index == 18
        document_node == get_document_node(node_id, context)[1]
        monochrome == bool_widget(document_node, node_id, monochrome_index, "Monochrome", "TODO", "", TRUE)
        monochrome_value == as_value(document_node.inputs[monochrome_index])
        is_monochrome ==
            IF Len(monochrome_value) = 1 /\ monochrome_value[1].tag = "Bool" THEN monochrome_value[1].v[1] ELSE FALSE
        input == inputs_get(document_node, output_channel_index)
        held == as_non_exposed_value(input[1])
        entries == enum_entries("RedGreenBlue", <<"Red", "Green", "Blue">>, node_id, output_channel_index)
        output_channel ==
            add_blank_assist(<<TextLabel("Output Channel"), Separator("Unrelated")>>)
            \o (IF Len(held) = 1 /\ held[1].tag = "RedGreenBlue"
                THEN <<[Control("RadioInput", "channel_mixer_properties", held[1], NoCallback, FALSE)
                          EXCEPT !.entries = entries]>>
                ELSE <<>>)
        output_value == as_value(input[1])
        rgbc == channels(is_monochrome, output_value[1].v[1])
        coefficient(i) ==
            Row(number_widget(document_node, node_id, rgbc[i][1], rgbc[i][2], "TODO",
                              [NumberInputDefault EXCEPT !.mode = "Range", !.min = Some(F(-200)),
                                                         !.max = Some(F(200)), !.unit = "%"], TRUE))
    IN  IF get_document_node(node_id, context) = <<>> THEN <<>>
        ELSE IF monochrome_index \notin DOMAIN document_node.inputs THEN <<Panicked>>
        ELSE IF input = <<>> THEN <<>>
        ELSE IF ~(Len(output_value) = 1 /\ output_value[1].tag = "RedGreenBlue") THEN <<>>
        ELSE <<Row(monochrome)>>
             \o (IF ~is_monochrome THEN <<Row(output_channel)>> ELSE <<>>)
             \o <<coefficient(1), coefficient(2), coefficient(3), coefficient(4)>>

(***************************************************************************)
(* Selective Color: slot 38 is the color band, slot 1 the mode, slots      *)
(* 2..37 the CMYK adjustments in nine groups of four.                      *)
(***************************************************************************)
SelectiveColorChoices ==
    <<"Reds", "Yellows", "Greens", "Cyans", "Blues", "Magentas", "Whites", "Neutrals", "Blacks">>

\* the (index, label) pairs of the Reds band whatever the band chosen
cmyk_always_reds(colors_choice_index) ==
    <<<<2, "(Reds) Cyan">>, <<3, "(Reds) Magenta">>, <<4, "(Reds) Yellow">>, <<5, "(Reds) Black">>>>

\* match colors_choice_index: the (index, label) pairs of the four CMYK rows
cmyk(colors_choice_index) ==
    CASE colors_choice_index = "Reds" ->
            <<<<2, "(Reds) Cyan">>, <<3, "(Reds) Magenta">>, <<4, "(Reds) Yellow">>, <<5, "(Reds) Black">>>>
      [] colors_choice_index = "Yellows" ->
            <<<<6, "(Yellows) Cyan">>, <<7, "(Yellows) Magenta">>, <<8, "(Yellows) Yellow">>, <<9, "(Yellows) Black">>>>
      [] colors_choice_index = "Greens" ->
            <<<<10, "(Greens) Cyan">>, <<11, "(Greens) Magenta">>, <<12, "(Greens) Yellow">>, <<13, "(Greens) Black">>>>
      [] colors_choice_index = "Cyans" ->
            <<<<14, "(Cyans) Cyan">>, <<15, "(Cyans) Magenta">>, <<16, "(Cyans) Yellow">>, <<17, "(Cyans) Black">>>>
      [] colors_choice_index = "Blues" ->
            <<<<18, "(Blues) Cyan">>, <<19, "(Blues) Magenta">>, <<20, "(Blues) Yellow">>, <<21, "(Blues) Black">>>>
      [] colors_choice_index = "Magentas" ->
            <<<<22, "(Magentas) Cyan">>, <<23, "(Magentas) Magenta">>, <<24, "(Magentas) Yellow">>, <<25, "(Magentas) Black">>>>
      [] colors_choice_index = "Whites" ->
            <<<<26, "(Whites) Cyan">>, <<27, "(Whites) Magenta">>, <<28, "(Whites) Yellow">>, <<29, "(Whites) Black">>>>
      [] colors_choice_index = "Neutrals" ->
            <<<<30, "(Neutrals) Cyan">>, <<31, "(Neutrals) Magenta">>, <<32, "(Neutrals) Yellow">>, <<33, "(Neutrals) Black">>>>
      [] colors_choice_index = "Blacks" ->
            <<<<34, "(Blacks) Cyan">>, <<35, "(Blacks) Magenta">>, <<36, "(Blacks) Yellow">>, <<37, "(Blacks) Black">>>>

\* selective_color_properties
selective_color_properties(node_id, context) ==
    LET colors_index == 38
        mode_index == 1
        document_node == get_document_node(node_id, context)[1]
        input == inputs_get(document_node, colors_index)
        held == as_non_exposed_value(input[1])
        colors ==
            add_blank_assist(<<TextLabel("Colors"), Separator("Unrelated")>>)
            \o (IF Len(held) = 1 /\ held[1].tag = "SelectiveColorChoice"
                THEN <<[Control("DropdownInput", "selective_color_properties", held[1], NoCallback, FALSE)
                          EXCEPT !.entries = enum_entries("SelectiveColorChoice", SelectiveColorChoices,
                                                          node_id, colors_index)]>>
                ELSE <<>>)
        colors_value == as_value(input[1])
        rows == cmyk(colors_value[1].v[1])
        adjustment(i) ==
            Row(number_widget(document_node, node_id, rows[i][1], rows[i][2], "TODO",
                              [NumberInputDefault EXCEPT !.mode = "Range", !.min = Some(F(-100)),
                                                         !.max = Some(F(100)), !.unit = "%"], TRUE))
        mode_input == inputs_get(document_node, mode_index)
        mode_held == as_non_exposed_value(mode_input[1])
        mode ==
            start_widgets(document_node, node_id, mode_index, "Mode", "TODO", "General", TRUE)
            \o <<Separator("Unrelated")>>
            \o (IF Len(mode_held) = 1 /\ mode_held[1].tag = "RelativeAbsolute"
                THEN <<[Control("RadioInput", "selective_color_properties", mode_held[1], NoCallback, FALSE)
                          EXCEPT !.entries = enum_entries("RelativeAbsolute", <<"Relative", "Absolute">>,
                                                          node_id, mode_index)]>>
                ELSE <<>>)
    IN  IF get_document_node(node_id, context) = <<>> THEN <<>>
        ELSE IF input = <<>> THEN <<>>
        ELSE IF ~(Len(colors_value) = 1 /\ colors_value[1].tag = "SelectiveColorChoice") THEN <<>>
        ELSE IF mode_input = <<>> THEN <<>>
        ELSE <<Row(colors), adjustment(1), adjustment(2), adjustment(3), adjustment(4), Row(mode)>>

(***************************************************************************)
(* The Math panel's expression closure.  A text is a sequence of           *)
(* characters.                                                             *)
(***************************************************************************)
\* char::is_whitespace on the characters the model types
is_whitespace(c) == c \in {" ", "\t", "\n"}

RECURSIVE trim_start(_)
trim_start(text) ==
    IF Len(text) > 0 /\ is_whitespace(Head(text)) THEN trim_start(Tail(text)) ELSE text
RECURSIVE trim_end(_)
trim_end(text) ==
    IF Len(text) > 0 /\ is_whitespace(text[Len(text)])
    THEN trim_end(SubSeq(text, 1, Len(text) - 1)) ELSE text
\* str::trim
trim(text) == trim_end(trim_start(text))

\* math_expression without the trim
math_expression_untrimmed(value) ==
    IF \E infix \in {"+", "-", "*", "/", "^", "%"} : <<infix>> = value
    THEN <<"A", " ">> \o value \o <<" ", "B">>
    ELSE value

\* the closure bound to the expression field: trim, then a bare infix
\* operator becomes "A <op> B"; the "^" arm after it is never reached
math_expression(value) ==
    LET expression == trim(value)
    IN  IF \E infix \in {"+", "-", "*", "/", "^", "%"} : <<infix>> = expression
        THEN <<"A", " ">> \o expression \o <<" ", "B">>
        ELSE IF expression = <<"^">> THEN <<"A", "^", "B">>
        ELSE expression

(***************************************************************************)
(* Calling a callback.  Invoke(callback, x) is the message the closure     *)
(* bound as on_update yields for the widget state x: a number for a        *)
(* NumberInput, a text for a TextInput, a boolean for a checkbox, a        *)
(* FillChoice for a ColorInput.                                            *)
(***************************************************************************)
Invoke(callback, x) ==
    LET fn == callback.fn
        node_id == callback.node_id
        index == callback.index
        cap == callback.cap
    IN  CASE fn = "const" -> callback.out
          [] fn = "String" -> update_value(TV("String", x), node_id, index)
          [] fn = "expression" -> update_value(TV("String", math_expression(x)), node_id, index)
          [] fn = "Bool" -> update_value(TV("Bool", <<x>>), node_id, index)
          [] fn = "F64" -> update_value(TV("F64", <<x>>), node_id, index)
          [] fn = "U32" -> update_value(TV("U32", <<as_unsigned(x)>>), node_id, index)
          [] fn = "U64" -> update_value(TV("U64", <<as_unsigned(x)>>), node_id, index)
          [] fn = "toggle_enabled" ->
                update_value(TV("OptionalF64", IF x THEN Some(F(100)) ELSE NoOption), node_id, index)
          [] fn = "OptionalF64" -> update_value(TV("OptionalF64", Some(x)), node_id, index)
          [] fn = "DVec2_x" -> update_value(TV("DVec2", <<x, cap[2]>>), node_id, index)
          [] fn = "DVec2_y" -> update_value(TV("DVec2", <<cap[1], x>>), node_id, index)
          [] fn = "IVec2_x" -> update_value(TV("IVec2", <<as_i32(x), cap[2]>>), node_id, index)
          [] fn = "IVec2_y" -> update_value(TV("IVec2", <<cap[1], as_i32(x)>>), node_id, index)
          [] fn = "UVec2_x" -> update_value(TV("UVec2", <<as_unsigned(x), cap[2]>>), node_id, index)
          [] fn = "UVec2_y" -> update_value(TV("UVec2", <<cap[1], as_unsigned(x)>>), node_id, index)
          [] fn = "F64_x" -> update_value(TV("DVec2", <<x, cap[1]>>), node_id, index)
          [] fn = "F64_y" -> update_value(TV("DVec2", <<cap[1], x>>), node_id, index)
          [] fn = "vec_f64_from_string" ->
                optionally_update_value(vec_f64_from_string(x), node_id, index)
          [] fn = "vec_dvec2_from_string" ->
                optionally_update_value(vec_dvec2_from_string(x), node_id, index)
          [] fn = "rectangle_from_string" ->
                optionally_update_value(rectangle_from_string(x), node_id, index)
          [] fn = "Font" -> update_value(TV("Font", x), node_id, index)
          [] fn = "Curve" -> update_value(TV("Curve", x), node_id, index)
          [] fn = "Color" -> update_value(TV("Color", <<unwrap_or(as_solid(x), ColorDefault)>>), node_id, index)
          [] fn = "OptionalColor" -> update_value(TV("OptionalColor", as_solid(x)), node_id, index)
          [] fn = "GradientStops" ->
                update_value(TV("GradientStops", unwrap_or(as_gradient_stops(x), StopsDefault)), node_id, index)
          [] fn = "fill_swatch" -> fill_swatch_update(cap[1], x, node_id, index, index + 1, index + 2)
          [] fn \in {"Footprint_X", "Footprint_Y", "Footprint_W", "Footprint_H", "Footprint_Resolution"} ->
                update_value(TV("Footprint", footprint_update(fn, cap, x)), node_id, index)

(***************************************************************************)
(* generate_node_properties: the rows of every slot 1..n-1, each from a    *)
(* widget override, or from property_from_type on the slot's resolved      *)
(* type.                                                                   *)
(***************************************************************************)
\* string_properties
string_properties(text) == <<Row(<<TextLabel(text)>>)>>

\* node_no_properties that never asks whether the node is a layer
node_no_properties_node_only(node_id, context) == string_properties("Node has no properties")

\* node_no_properties
node_no_properties(node_id, context) ==
    string_properties(IF context.is_layer THEN "Layer has no properties" ELSE "Node has no properties")

\* the order of characters in type names
CharOrder ==
    <<"(", ")", ",", "0", "1", "2", "3", "4", "5", "6", "7", "8", "9", ":", "<", ">",
      "A", "B", "C", "D", "E", "F", "G", "H", "I", "J", "K", "L", "M", "N", "O", "P", "Q", "R", "S",
      "T", "U", "V", "W", "X", "Y", "Z", "_",
      "a", "b", "c", "d", "e", "f", "g", "h", "i", "j", "k", "l", "m", "n", "o", "p", "q", "r", "s",
      "t", "u", "v", "w", "x", "y", "z">>
CharCode(c) == CHOOSE i \in 1..Len(CharOrder) : CharOrder[i] = c

\* Ord for str: a < b
RECURSIVE LexLess(_, _)
LexLess(a, b) ==
    IF b = <<>> THEN FALSE
    ELSE IF a = <<>> THEN TRUE
    ELSE IF Head(a) # Head(b) THEN CharCode(Head(a)) < CharCode(Head(b))
    ELSE LexLess(Tail(a), Tail(b))

\* the sort key of a candidate type: its name
type_name(ty) == ty.name

\* slice::sort_by_key(type_name): stable, so equal keys keep their order
RECURSIVE sort_by_key(_)
sort_by_key(types) ==
    IF types = <<>> THEN <<>>
    ELSE LET sorted == sort_by_key(SubSeq(types, 1, Len(types) - 1))
             last == types[Len(types)]
             keep == {i \in 1..Len(sorted) : ~LexLess(type_name(last), type_name(sorted[i]))}
             at == Cardinality(keep)
         IN  SubSeq(sorted, 1, at) \o <<last>> \o SubSeq(sorted, at + 1, Len(sorted))

\* implementations.keys().filter_map(|item| item.inputs.get(input_index))
candidate_types(implementations, input_index) ==
    LET offered(i) == input_index \in DOMAIN implementations[i].inputs
        at(i) == implementations[i].inputs[input_index]
        RECURSIVE collect(_)
        collect(i) == IF i > Len(implementations) THEN <<>>
                      ELSE (IF offered(i) THEN <<at(i)>> ELSE <<>>) \o collect(i + 1)
    IN  collect(1)

\* renderable without the filter
renderable_unfiltered(types, node_id, input_index, number_options, context) == types

\* .filter(|ty| property_from_type(..).is_ok())
renderable(types, node_id, input_index, number_options, context) ==
    LET ok(ty) == is_ok(property_from_type(node_id, input_index, ty, number_options, context))
    IN  SelectSeq(types, ok)

\* the candidates of a polymorphic slot, filtered and sorted
input_types(node_id, input_index, number_options, context) ==
    sort_by_key(renderable(candidate_types(context.implementations[1], input_index),
                           node_id, input_index, number_options, context))

\* slice::first
first(types) == IF types = <<>> THEN <<>> ELSE <<types[1]>>

\* the number options registered for the slot of a proto node
field_number_options(node_id, input_index, context) ==
    LET field == context.field[input_index]
    IN  IF context.implementation # <<>> /\ context.implementation[1].kind = "ProtoNode" /\ field # <<>>
        THEN <<field[1].number_min, field[1].number_max, field[1].number_mode_range>>
        ELSE <<NoOption, NoOption, NoOption>>

\* the type the slot's row is built for: <<ty>>, or <<>> where the closure
\* returns no rows before it dispatches
resolved_input_type(node_id, input_index, context) ==
    LET implementation == context.implementation
        field == context.field[input_index]
        number_options == field_number_options(node_id, input_index, context)
    IN  IF implementation = <<>> THEN <<>>
        ELSE IF implementation[1].kind = "ProtoNode"
        THEN IF field # <<>> /\ field[1].default_type # <<>> THEN <<field[1].default_type[1]>>
             ELSE IF context.implementations = <<>> THEN <<>>
             ELSE first(input_types(node_id, input_index, number_options, context))
        ELSE <<context.input_type[input_index]>>

\* Result::unwrap_or_else(|value| value): the rows of Ok and of Err alike
unwrap_or_else_value(result) == IF result.res = "Panic" THEN <<Panicked>> ELSE result.rows

\* the rows dispatch builds for the resolved type; none if none was resolved
dispatch_rows(input_type, node_id, input_index, number_options, context) ==
    IF Len(input_type) = 0 THEN <<>>
    ELSE unwrap_or_else_value(property_from_type(node_id, input_index, input_type[1], number_options, context))

\* slot_rows that never asks for a per-slot override
slot_rows_without_override(node_id, input_index, context) ==
    dispatch_rows(resolved_input_type(node_id, input_index, context), node_id, input_index,
                  field_number_options(node_id, input_index, context), context)

\* the rows of one slot (the closure of the for loop)
slot_rows(node_id, input_index, context) ==
    IF Len(context.widget_override[input_index]) # 0 THEN context.widget_override[input_index][1]
    ELSE dispatch_rows(resolved_input_type(node_id, input_index, context), node_id, input_index,
                       field_number_options(node_id, input_index, context), context)

\* the layout of the section
RECURSIVE slots_layout(_, _, _)
slots_layout(node_id, input_index, context) ==
    IF input_index >= context.number_of_inputs THEN <<>>
    ELSE slot_rows(node_id, input_index, context) \o slots_layout(node_id, input_index + 1, context)

properties_override(name, node_id, context) ==
    CASE name = "fill_properties" -> fill_properties(node_id, context)
      [] name = "rectangle_properties" -> rectangle_properties(node_id, context)
      [] name = "grid_properties" -> grid_properties(node_id, context)
      [] name = "stroke_properties" -> stroke_properties(node_id, context)
      [] name = "offset_path_properties" -> offset_path_properties(node_id, context)
      [] name = "math_properties" -> math_properties(node_id, context)
      [] name = "channel_mixer_properties" -> channel_mixer_properties(node_id, context)
      [] name = "selective_color_properties" -> selective_color_properties(node_id, context)

\* if layout.is_empty() { layout = node_no_properties(..) }
or_no_properties(layout, node_id, context) ==
    IF Len(layout) = 0 THEN node_no_properties(node_id, context) ELSE layout

\* the layout after the node-level override or the loop over the slots
section_layout(node_id, context) ==
    IF context.properties_override # <<>>
    THEN properties_override(context.properties_override[1], node_id, context)
    ELSE slots_layout(node_id, 1, context)

\* generate_node_properties naming the section after the proto node first
generate_node_properties_proto_first(node_id, context) ==
    [name |-> IF context.implementation # <<>> /\ context.implementation[1].kind = "ProtoNode"
              THEN context.implementation[1].name
              ELSE IF context.reference # <<>> THEN context.reference[1]
              ELSE "Custom Node",
     description |-> context.description,
     visible |-> context.is_visible,
     pinned |-> context.is_pinned,
     id |-> node_id,
     layout |-> or_no_properties(section_layout(node_id, context), node_id, context)]

\* generate_node_properties: the section
generate_node_properties(node_id, context) ==
    [name |-> IF context.reference # <<>> THEN context.reference[1]
              ELSE IF context.implementation # <<>> /\ context.implementation[1].kind = "ProtoNode"
              THEN context.implementation[1].name
              ELSE "Custom Node",
     description |-> context.description,
     visible |-> context.is_visible,
     pinned |-> context.is_pinned,
     id |-> node_id,
     layout |-> or_no_properties(section_layout(node_id, context), node_id, context)]

(***************************************************************************)
(* The free-text list controls as a state machine: the control is built    *)
(* from the slot's value, the user types, the live update fires, and the   *)
(* dispatch fabric applies the message.                                    *)
(***************************************************************************)
TextNode == "n1"
TextControls == {"vec_f64_input", "vec_dvec2_input", "rectangle_properties"}
TextSlot(c) == IF c = "rectangle_properties" THEN corner_radius_index ELSE 1

FloatVals == {F(1), F(2), Fd(35, 1), Fd(-5, 2), NegZero}
PointVals == {<<F(1), Fd(35, 1)>>, <<F(-2), F(0)>>}
SeqsUpTo(S, n) == UNION {[1..k -> S] : k \in 0..n}

\* the text a control built from `value` shows (TextInput::value)
Displayed(c, value) ==
    CASE c = "vec_f64_input" -> vec_f64_display(value.v)
      [] c = "vec_dvec2_input" -> vec_dvec2_display(value.v)
      [] c = "rectangle_properties" -> rectangle_display(value.v)

\* the control's on_update closure applied to the field's text
TextOnUpdate(c, text) ==
    CASE c = "vec_f64_input" ->
            optionally_update_value(vec_f64_from_string(text), TextNode, TextSlot(c))
      [] c = "vec_dvec2_input" ->
            optionally_update_value(vec_dvec2_from_string(text), TextNode, TextSlot(c))
      [] c = "rectangle_properties" ->
            optionally_update_value(rectangle_from_string(text), TextNode, TextSlot(c))

\* the dispatch fabric's handling of one message for a single slot
ApplyToSlot(m, node_id, index, value) ==
    IF m.type = "SetInputValue" /\ m.node_id = node_id /\ m.input_index = index
    THEN m.value ELSE value

TypedTokens == {<<>>, <<"1">>, <<"2", ".", "5">>, <<"a">>}
TypedSeparators == {<<",">>, <<" ">>}

\* values a slot holds when the user starts typing
TextBase(c) ==
    CASE c = "vec_f64_input" -> {TV("VecF64", <<>>), TV("VecF64", <<F(1), Fd(35, 1)>>)}
      [] c = "vec_dvec2_input" -> {TV("VecDVec2", <<>>), TV("VecDVec2", <<<<F(1), F(2)>>>>)}
      [] c = "rectangle_properties" ->
            {TV("F64Array4", <<F(0), F(0), F(0), F(0)>>),
             TV("F64Array4", <<F(1), F(2), F(3), F(4)>>)}

\* values a slot holds when its own displayed text is fed back
RoundBase(c) ==
    CASE c = "vec_f64_input" -> {TV("VecF64", l) : l \in SeqsUpTo(FloatVals, MaxListLen)}
      [] c = "vec_dvec2_input" -> {TV("VecDVec2", l) : l \in SeqsUpTo(PointVals, MaxListLen)}
      [] c = "rectangle_properties" ->
            {TV("F64Array4", <<f, g, f, f>>) : f \in FloatVals, g \in {F(1), Fd(35, 1)}}

IdlePanel ==
    /\ node = [kind |-> "none", inputs |-> <<>>]
    /\ snap = <<>>
    /\ ctl = "none"
    /\ msg = NoMsg
    /\ pc = "idle"

IdleResolve ==
    /\ rctx = "none"
    /\ rcands = <<>>
    /\ rout = <<>>
    /\ rpc = "idle"

IdleText ==
    /\ tctl = "none"
    /\ tval = NoValue
    /\ tfield = <<>>
    /\ ttoks = <<>>
    /\ tmsg = NoMsg
    /\ tpc = "idle"

TextBuilt(c, value) ==
    /\ tctl = c
    /\ tval = value
    /\ tfield = Displayed(c, value)
    /\ ttoks = <<>>
    /\ tmsg = NoMsg
    /\ tpc = "built"

InitText ==
    /\ \E c \in TextControls : \E value \in TextBase(c) : TextBuilt(c, value)
    /\ IdlePanel
    /\ IdleResolve

InitRound ==
    /\ \E c \in TextControls : \E value \in RoundBase(c) : TextBuilt(c, value)
    /\ IdlePanel
    /\ IdleResolve

\* the user replaces the field's text
TextType ==
    /\ tpc = "built"
    /\ \E toks \in SeqsUpTo(TypedTokens, MaxTokens) : \E sep \in TypedSeparators :
          /\ toks # <<>>
          /\ ttoks' = toks
          /\ tfield' = Join(toks, sep)
    /\ tpc' = "typed"
    /\ UNCHANGED <<tctl, tval, tmsg>>
    /\ UNCHANGED <<panelVars, resVars>>

\* the field's on_update fires on the text it holds
TextLiveUpdate ==
    /\ tpc \in {"built", "typed"}
    /\ tmsg' = TextOnUpdate(tctl, tfield)
    /\ tpc' = IF tpc = "built" THEN "echoed" ELSE "emitted"
    /\ UNCHANGED <<tctl, tval, tfield, ttoks>>
    /\ UNCHANGED <<panelVars, resVars>>

\* the dispatch fabric applies the message to the slot
TextApply ==
    /\ tpc \in {"echoed", "emitted"}
    /\ tval' = ApplyToSlot(tmsg, TextNode, TextSlot(tctl), tval)
    /\ tpc' = "applied"
    /\ UNCHANGED <<tctl, tfield, ttoks, tmsg>>
    /\ UNCHANGED <<panelVars, resVars>>

NextText == TextType \/ TextLiveUpdate \/ TextApply
SpecText == InitText /\ [][NextText]_vars

NextRound == TextLiveUpdate \/ TextApply
SpecRound == InitRound /\ [][NextRound]_vars

(***************************************************************************)
(* The panel of one selected node as a state machine: the panel is built   *)
(* from the node's inputs (Refresh), the user edits one control (Edit) or  *)
(* releases it (Commit), and the dispatcher applies the message (Apply).   *)
(***************************************************************************)
PanelNode == "n2"

\* the context the network interface presents for a node of `kind` whose
\* slots have the types `types` (a function on 1..n-1)
PanelContext(kind, types, inputs) ==
    [input_name |-> Some("Input"),
     input_description |-> Some("TODO"),
     network |-> Some([nodes |-> (PanelNode :> [inputs |-> inputs])]),
     properties_override |-> IF kind = "Slot" THEN NoOption ELSE Some(kind),
     reference |-> IF kind = "Slot" THEN NoOption ELSE Some(kind),
     is_layer |-> FALSE,
     description |-> "",
     is_visible |-> TRUE,
     is_pinned |-> FALSE,
     number_of_inputs |-> Cardinality(DOMAIN inputs),
     widget_override |-> [i \in DOMAIN types |-> NoOption],
     implementation |-> Some([kind |-> "ProtoNode", name |-> "proto"]),
     field |-> [i \in DOMAIN types |->
                  Some([number_min |-> NoOption, number_max |-> NoOption,
                        number_mode_range |-> NoOption, default_type |-> Some(types[i])])],
     implementations |-> NoOption,
     input_type |-> types]

\* the rows of the panel built from `inputs`
Panel(kind, types, inputs) ==
    generate_node_properties(PanelNode, PanelContext(kind, types, inputs)).layout

\* every callback site of a panel: <<row, widget, entry>>, entry 0 for a
\* widget that carries its own callbacks
SiteEntries(layout, r, w) ==
    LET widget == layout[r].widgets[w]
    IN  IF widget.widget \notin InteractiveKinds THEN {}
        ELSE IF Len(widget.entries) = 0 THEN {<<r, w, 0>>}
        ELSE {<<r, w, e>> : e \in 1..Len(widget.entries)}
Sites(layout) ==
    UNION {UNION {SiteEntries(layout, r, w) : w \in 1..Len(layout[r].widgets)} : r \in 1..Len(layout)}
SiteWidget(layout, site) == layout[site[1]].widgets[site[2]]
SiteLabel(layout, site) ==
    IF site[3] = 0 THEN "" ELSE SiteWidget(layout, site).entries[site[3]].label
SiteOnUpdate(layout, site) ==
    IF site[3] = 0 THEN SiteWidget(layout, site).on_update
    ELSE SiteWidget(layout, site).entries[site[3]].on_update
SiteOnCommit(layout, site) ==
    IF site[3] = 0 THEN SiteWidget(layout, site).on_commit
    ELSE SiteWidget(layout, site).entries[site[3]].on_commit

\* what the user can put into a widget before its on_update fires
NumberInputs == {Fd(35, 1)}
Strings == {<<"a">>, <<"b">>}
PanelTexts ==
    {<<"1">>, <<"1", ",", " ", "2">>, <<"1", ",", " ", "2", ",", " ", "3", ",", " ", "4">>, <<"a">>}
FillChoices == {FillChoiceNone, FillChoiceSolid("red"), FillChoiceGradient(<<"red", "blue">>)}
UiInputs(widget, callback) ==
    CASE callback.fn = "const" -> {0}
      [] widget.widget = "NumberInput" -> NumberInputs
      [] widget.widget \in {"TextInput", "TextAreaInput"} ->
            IF callback.fn = "String" THEN Strings ELSE PanelTexts
      [] widget.widget = "CheckboxInput" -> BOOLEAN
      [] widget.widget = "ColorInput" -> FillChoices
      [] widget.widget = "FontInput" -> {<<"serif">>}
      [] widget.widget = "CurveInput" -> {<<"curve">>}

\* the dispatcher's handling of a message: SetInputValue replaces the slot's
\* value, ExposeInput its exposed flag, Batched applies its messages in order
ApplyOne(inputs, m) ==
    IF m.input_index \notin DOMAIN inputs THEN inputs
    ELSE CASE m.type = "SetInputValue" ->
                [inputs EXCEPT ![m.input_index] = ValueInput(m.value, inputs[m.input_index].exposed)]
           [] m.type = "ExposeInput" ->
                [inputs EXCEPT ![m.input_index].exposed = m.set_to_exposed]
           [] OTHER -> inputs
RECURSIVE ApplyEach(_, _)
ApplyEach(inputs, msgs) ==
    IF msgs = <<>> THEN inputs ELSE ApplyEach(ApplyOne(inputs, Head(msgs)), Tail(msgs))
ApplyMessage(inputs, m) ==
    IF m.type = "Batched" THEN ApplyEach(inputs, m.msgs) ELSE ApplyOne(inputs, m)

\* the writes a message carries, in order
Writes(m) ==
    IF m.type = "Batched" THEN SelectSeq(m.msgs, LAMBDA w : w.type = "SetInputValue")
    ELSE IF m.type = "SetInputValue" THEN <<m>> ELSE <<>>

(***************************************************************************)
(* The nodes a panel is built for.                                         *)
(***************************************************************************)
Inputs(seq) == [i \in 0..(Len(seq) - 1) |-> seq[i + 1]]
Literal(value) == ValueInput(value, FALSE)
Node(kind, types, seq) == [kind |-> kind, types |-> types, inputs |-> Inputs(seq)]
Untyped(n) == [i \in 1..n |-> Generic(<<"T">>)]

GradientA == Gradient(<<"red", "blue">>, "Linear", <<0, 0>>, <<1, 0>>)
GradientB == Gradient(<<"green", "white">>, "Radial", <<0, 0>>, <<0, 1>>)
FillNodes ==
    {Node("fill_properties", Untyped(3),
          <<WireInput, Literal(TV("Fill", fill)), Literal(TV("OptionalColor", backup_color)),
            Literal(TV("Gradient", GradientB))>>) :
        fill \in {FillNone, FillSolid("red"), FillGradient(GradientA)},
        backup_color \in {NoOption, Some("blue")}}

RectangleNodes ==
    {Node("rectangle_properties", Untyped(5),
          <<WireInput, Literal(TV("F64", <<F(10)>>)), Literal(TV("F64", <<F(20)>>)),
            Literal(TV("Bool", <<shape[1]>>)), Literal(shape[2]), Literal(TV("Bool", <<TRUE>>))>>) :
        shape \in {<<FALSE, TV("F64", <<F(5)>>)>>,
                   <<TRUE, TV("F64Array4", <<F(1), F(2), F(3), F(4)>>)>>}}

GridNodes ==
    {Node("grid_properties", Untyped(5),
          <<WireInput, Literal(TV("GridType", <<shape[1]>>)), Literal(shape[2]),
            Literal(TV("DVec2", <<F(30), F(30)>>)), Literal(TV("U32", <<10>>)), Literal(TV("U32", <<10>>))>>) :
        shape \in {<<"Rectangular", TV("DVec2", <<F(10), F(20)>>)>>,
                   <<"Isometric", TV("F64", <<F(10)>>)>>}}

\* what the dash lengths slot and the line join slot of a node can hold
DashInputs ==
    {Literal(TV("VecF64", <<>>)), Literal(TV("VecF64", <<F(1), F(2)>>)),
     ValueInput(TV("VecF64", <<F(1), F(2)>>), TRUE), WireInput, Literal(TV("F64", <<F(1)>>))}
JoinInputs ==
    {Literal(TV("LineJoin", <<"Miter">>)), Literal(TV("LineJoin", <<"Bevel">>)),
     Literal(TV("LineJoin", <<"Round">>)), ValueInput(TV("LineJoin", <<"Bevel">>), TRUE),
     ValueInput(TV("LineJoin", <<"Miter">>), TRUE), WireInput, Literal(TV("Bool", <<TRUE>>))}

StrokeNodes ==
    {Node("stroke_properties", Untyped(7),
          <<WireInput, Literal(TV("OptionalColor", Some("red"))), Literal(TV("F64", <<F(2)>>)), dash,
            Literal(TV("F64", <<F(0)>>)), Literal(TV("LineCap", <<"Butt">>)), join,
            Literal(TV("F64", <<F(4)>>))>>) :
        dash \in DashInputs, join \in JoinInputs}

OffsetPathNodes ==
    {Node("offset_path_properties", Untyped(3),
          <<WireInput, Literal(TV("F64", <<F(10)>>)), join, Literal(TV("F64", <<F(4)>>))>>) :
        join \in JoinInputs}

MathNodes ==
    {Node("math_properties", Untyped(2),
          <<WireInput, expression, Literal(TV("F64", <<F(1)>>))>>) :
        expression \in {Literal(TV("String", <<"A", "+", "B">>)), WireInput}}

\* a Channel Mixer node: coefficient slot i stores the value i
MonochromeInputs ==
    {Literal(TV("Bool", <<TRUE>>)), Literal(TV("Bool", <<FALSE>>)),
     ValueInput(TV("Bool", <<TRUE>>), TRUE), WireInput}
OutputChannelInputs ==
    {Literal(TV("RedGreenBlue", <<"Red">>)), Literal(TV("RedGreenBlue", <<"Green">>)),
     Literal(TV("RedGreenBlue", <<"Blue">>)), ValueInput(TV("RedGreenBlue", <<"Green">>), TRUE),
     WireInput}
ChannelMixerNodes ==
    {Node("channel_mixer_properties", Untyped(18),
          <<WireInput, monochrome>> \o [i \in 1..16 |-> Literal(TV("F64", <<F(i + 1)>>))]
          \o <<output_channel>>) :
        monochrome \in MonochromeInputs, output_channel \in OutputChannelInputs}

\* a Selective Color node: adjustment slot i stores the value i
ColorsInputs ==
    {Literal(TV("SelectiveColorChoice", <<SelectiveColorChoices[k]>>)) : k \in 1..9}
    \cup {ValueInput(TV("SelectiveColorChoice", <<"Cyans">>), TRUE), WireInput}
SelectiveColorNodes ==
    {Node("selective_color_properties", Untyped(38),
          <<WireInput, Literal(TV("RelativeAbsolute", <<"Relative">>))>>
          \o [i \in 1..36 |-> Literal(TV("F64", <<F(i + 1)>>))]
          \o <<colors>>) :
        colors \in ColorsInputs}

\* a slot of each catalog type, holding a value of the matching variant
SlotCatalog ==
    {<<Concrete(<<"b", "o", "o", "l">>, Some("bool"), NoOption),
       TV("Bool", <<TRUE>>)>>,
     <<Concrete(<<"f", "6", "4">>, Some("f64"), NoOption),
       TV("F64", <<F(1)>>)>>,
     <<Concrete(<<"u", "3", "2">>, Some("u32"), NoOption),
       TV("U32", <<1>>)>>,
     <<Concrete(<<"u", "6", "4">>, Some("u64"), NoOption),
       TV("U64", <<1>>)>>,
     <<Concrete(<<"S", "t", "r", "i", "n", "g">>, Some("String"), NoOption),
       TV("String", <<"a">>)>>,
     <<Concrete(<<"C", "o", "l", "o", "r">>, Some("Color"), NoOption),
       TV("Color", <<"red">>)>>,
     <<Concrete(<<"O", "p", "t", "i", "o", "n", "<", "C", "o", "l", "o", "r", ">">>, Some("Option<Color>"), NoOption),
       TV("OptionalColor", Some("red"))>>,
     <<Concrete(<<"D", "V", "e", "c", "2">>, Some("DVec2"), NoOption),
       TV("DVec2", <<F(1), F(2)>>)>>,
     <<Concrete(<<"U", "V", "e", "c", "2">>, Some("UVec2"), NoOption),
       TV("UVec2", <<1, 2>>)>>,
     <<Concrete(<<"I", "V", "e", "c", "2">>, Some("IVec2"), NoOption),
       TV("IVec2", <<1, 2>>)>>,
     <<Concrete(<<"V", "e", "c", "<", "f", "6", "4", ">">>, Some("Vec<f64>"), NoOption),
       TV("VecF64", <<F(1), F(2)>>)>>,
     <<Concrete(<<"V", "e", "c", "<", "D", "V", "e", "c", "2", ">">>, Some("Vec<DVec2>"), NoOption),
       TV("VecDVec2", <<<<F(1), F(2)>>>>)>>,
     <<Concrete(<<"F", "o", "n", "t">>, Some("Font"), NoOption),
       TV("Font", <<"sans">>)>>,
     <<Concrete(<<"C", "u", "r", "v", "e">>, Some("Curve"), NoOption),
       TV("Curve", <<"line">>)>>,
     <<Concrete(<<"G", "r", "a", "d", "i", "e", "n", "t", "S", "t", "o", "p", "s">>, Some("GradientStops"), NoOption),
       TV("GradientStops", <<"red", "blue">>)>>,
     <<Concrete(<<"V", "e", "c", "t", "o", "r", "D", "a", "t", "a", "T", "a", "b", "l", "e">>, Some("VectorDataTable"), NoOption),
       TV("VectorData", <<>>)>>,
     <<Concrete(<<"R", "a", "s", "t", "e", "r", "F", "r", "a", "m", "e">>, Some("RasterFrame"), NoOption),
       TV("RasterFrame", <<>>)>>,
     <<Concrete(<<"G", "r", "a", "p", "h", "i", "c", "G", "r", "o", "u", "p", "T", "a", "b", "l", "e">>, Some("GraphicGroupTable"), NoOption),
       TV("GraphicGroup", <<>>)>>,
     <<Concrete(<<"F", "o", "o", "t", "p", "r", "i", "n", "t">>, Some("Footprint"), NoOption),
       TV("Footprint", <<0, 0, 2, 2, 2, 2>>)>>,
     <<Concrete(<<"B", "l", "e", "n", "d", "M", "o", "d", "e">>, Some("BlendMode"), NoOption),
       TV("BlendMode", <<"Normal">>)>>,
     <<Concrete(<<"R", "e", "a", "l", "T", "i", "m", "e", "M", "o", "d", "e">>, Some("RealTimeMode"), NoOption),
       TV("RealTimeMode", <<"Utc">>)>>,
     <<Concrete(<<"R", "e", "d", "G", "r", "e", "e", "n", "B", "l", "u", "e">>, Some("RedGreenBlue"), NoOption),
       TV("RedGreenBlue", <<"Red">>)>>,
     <<Concrete(<<"R", "e", "d", "G", "r", "e", "e", "n", "B", "l", "u", "e", "A", "l", "p", "h", "a">>, Some("RedGreenBlueAlpha"), NoOption),
       TV("RedGreenBlueAlpha", <<"Red">>)>>,
     <<Concrete(<<"X", "Y">>, Some("XY"), NoOption),
       TV("XY", <<"X">>)>>,
     <<Concrete(<<"N", "o", "i", "s", "e", "T", "y", "p", "e">>, Some("NoiseType"), NoOption),
       TV("NoiseType", <<"Perlin">>)>>,
     <<Concrete(<<"F", "r", "a", "c", "t", "a", "l", "T", "y", "p", "e">>, Some("FractalType"), NoOption),
       TV("FractalType", <<"None">>)>>,
     <<Concrete(<<"C", "e", "l", "l", "u", "l", "a", "r", "D", "i", "s", "t", "a", "n", "c", "e", "F", "u", "n", "c", "t", "i", "o", "n">>, Some("CellularDistanceFunction"), NoOption),
       TV("CellularDistanceFunction", <<"Euclidean">>)>>,
     <<Concrete(<<"C", "e", "l", "l", "u", "l", "a", "r", "R", "e", "t", "u", "r", "n", "T", "y", "p", "e">>, Some("CellularReturnType"), NoOption),
       TV("CellularReturnType", <<"CellValue">>)>>,
     <<Concrete(<<"D", "o", "m", "a", "i", "n", "W", "a", "r", "p", "T", "y", "p", "e">>, Some("DomainWarpType"), NoOption),
       TV("DomainWarpType", <<"None">>)>>,
     <<Concrete(<<"R", "e", "l", "a", "t", "i", "v", "e", "A", "b", "s", "o", "l", "u", "t", "e">>, Some("RelativeAbsolute"), NoOption),
       TV("RelativeAbsolute", <<"Relative">>)>>,
     <<Concrete(<<"G", "r", "i", "d", "T", "y", "p", "e">>, Some("GridType"), NoOption),
       TV("GridType", <<"Rectangular">>)>>,
     <<Concrete(<<"L", "i", "n", "e", "C", "a", "p">>, Some("LineCap"), NoOption),
       TV("LineCap", <<"Butt">>)>>,
     <<Concrete(<<"L", "i", "n", "e", "J", "o", "i", "n">>, Some("LineJoin"), NoOption),
       TV("LineJoin", <<"Miter">>)>>,
     <<Concrete(<<"A", "r", "c", "T", "y", "p", "e">>, Some("ArcType"), NoOption),
       TV("ArcType", <<"Open">>)>>,
     <<Concrete(<<"F", "i", "l", "l", "T", "y", "p", "e">>, Some("FillType"), NoOption),
       TV("FillType", <<"Solid">>)>>,
     <<Concrete(<<"G", "r", "a", "d", "i", "e", "n", "t", "T", "y", "p", "e">>, Some("GradientType"), NoOption),
       TV("GradientType", <<"Linear">>)>>,
     <<Concrete(<<"B", "o", "o", "l", "e", "a", "n", "O", "p", "e", "r", "a", "t", "i", "o", "n">>, Some("BooleanOperation"), NoOption),
       TV("BooleanOperation", <<"Union">>)>>,
     <<Concrete(<<"C", "e", "n", "t", "r", "o", "i", "d", "T", "y", "p", "e">>, Some("CentroidType"), NoOption),
       TV("CentroidType", <<"Area">>)>>,
     <<Concrete(<<"L", "u", "m", "i", "n", "a", "n", "c", "e", "C", "a", "l", "c", "u", "l", "a", "t", "i", "o", "n">>, Some("LuminanceCalculation"), NoOption),
       TV("LuminanceCalculation", <<"SRGB">>)>>,
     <<Concrete(<<"f", "6", "4">>, Some("f64"), Some("Percentage")),
       TV("F64", <<F(50)>>)>>,
     <<Concrete(<<"f", "6", "4">>, Some("f64"), Some("Angle")),
       TV("F64", <<F(90)>>)>>,
     <<Concrete(<<"f", "6", "4">>, Some("f64"), Some("PixelLength")),
       TV("F64", <<F(1)>>)>>,
     <<Concrete(<<"u", "3", "2">>, Some("u32"), Some("IntegerCount")),
       TV("U32", <<1>>)>>,
     <<Concrete(<<"u", "3", "2">>, Some("u32"), Some("SeedValue")),
       TV("U32", <<0>>)>>,
     <<Concrete(<<"U", "V", "e", "c", "2">>, Some("UVec2"), Some("Resolution")),
       TV("UVec2", <<64, 64>>)>>,
     <<Concrete(<<"f", "6", "4">>, Some("f64"), NoOption),
       TV("OptionalF64", Some(F(1)))>>,
     <<Concrete(<<"f", "6", "4">>, Some("f64"), NoOption),
       TV("OptionalF64", NoOption)>>,
     <<Concrete(<<"A", "r", "t", "b", "o", "a", "r", "d">>, Some("Artboard"), NoOption),
       TV("Artboard", <<>>)>>}

SlotNodes ==
    {Node("Slot", <<slot[1]>>, <<WireInput, ValueInput(slot[2], exposed)>>) :
        slot \in SlotCatalog, exposed \in {FALSE}}
    \cup {Node("Slot", <<Future(<<"F">>, Concrete(<<"f", "6", "4">>, Some("f64"), NoOption))>>,
               <<WireInput, Literal(TV("F64", <<F(1)>>))>>),
          Node("Slot", <<Generic(<<"T">>)>>, <<WireInput, Literal(TV("F64", <<F(1)>>))>>),
          Node("Slot", <<Concrete(<<"f", "6", "4">>, Some("f64"), NoOption)>>, <<WireInput, WireInput>>)}

NoControl == [widget |-> Widget("none"), entry |-> "", site |-> <<0, 0, 0>>]

Init ==
    /\ \/ node \in FillNodes
       \/ node \in RectangleNodes
       \/ node \in GridNodes
       \/ node \in SlotNodes
    /\ snap = node.inputs
    /\ ctl = NoControl
    /\ msg = NoMsg
    /\ pc = "fresh"
    /\ IdleText
    /\ IdleResolve

\* the literal slots currently exposed
ExposedCount(inputs) == Cardinality({i \in DOMAIN inputs : inputs[i].kind = "Value" /\ inputs[i].exposed})

\* the panel on screen: built from the inputs captured at the last refresh
Shown == Panel(node.kind, node.types, snap)

\* the user changes a control: its on_update yields a message
Edit ==
    /\ pc = "fresh"
    /\ \E layout \in {Shown} : \E site \in Sites(layout) :
          \E widget \in {SiteWidget(layout, site)} : \E callback \in {SiteOnUpdate(layout, site)} :
             /\ callback.fn # "none"
             /\ \E x \in UiInputs(widget, callback) : msg' = Invoke(callback, x)
             /\ (msg'.type = "ExposeInput" /\ msg'.set_to_exposed) => ExposedCount(node.inputs) < MaxExposed
             /\ ctl' = [widget |-> widget, entry |-> SiteLabel(layout, site), site |-> site]
    /\ pc' = "emitted"
    /\ UNCHANGED <<node, snap>>
    /\ UNCHANGED <<textVars, resVars>>

\* the user releases a control that has an on_commit
Commit ==
    /\ pc = "fresh"
    /\ \E layout \in {Shown} : \E site \in Sites(layout) :
          \E widget \in {SiteWidget(layout, site)} :
             /\ SiteOnCommit(layout, site)
             /\ msg' = commit_value(widget)
             /\ ctl' = [widget |-> widget, entry |-> SiteLabel(layout, site), site |-> site]
    /\ pc' = "committed"
    /\ UNCHANGED <<node, snap>>
    /\ UNCHANGED <<textVars, resVars>>

\* the dispatcher applies the message to the node in the graph store
Apply ==
    /\ pc \in {"emitted", "committed"}
    /\ node' = [node EXCEPT !.inputs = ApplyMessage(node.inputs, msg)]
    /\ pc' = "stale"
    /\ UNCHANGED <<snap, ctl, msg>>
    /\ UNCHANGED <<textVars, resVars>>

\* the panel is rebuilt from the node
Refresh ==
    /\ pc = "stale"
    /\ snap' = node.inputs
    /\ ctl' = NoControl
    /\ msg' = NoMsg
    /\ pc' = "fresh"
    /\ UNCHANGED node
    /\ UNCHANGED <<textVars, resVars>>

Next == Edit \/ Commit \/ Apply \/ Refresh
Spec == Init /\ [][Next]_vars

(***************************************************************************)
(* Type resolution and dispatch for slot 1 of one node, as a state         *)
(* machine: the state is what the network interface and the registries     *)
(* answer; Dispatch calls property_from_type on a type, ResolveSlot builds *)
(* the section as generate_node_properties does.                           *)
(***************************************************************************)
ResNode == "n3"
NoNumberOptions == <<NoOption, NoOption, NoOption>>

TypeBool == Concrete(<<"b", "o", "o", "l">>, Some("bool"), NoOption)
TypeF64 == Concrete(<<"f", "6", "4">>, Some("f64"), NoOption)
TypePercentage == Concrete(<<"f", "6", "4">>, Some("f64"), Some("Percentage"))
TypeString == Concrete(<<"S", "t", "r", "i", "n", "g">>, Some("String"), NoOption)
\* types no alias and no catalog entry matches
TypeArtboard == Concrete(<<"A", "r", "t", "b", "o", "a", "r", "d">>, Some("Artboard"), NoOption)
TypeUnit == Concrete(<<"(", ")">>, NoOption, NoOption)
TypeGeneric == Generic(<<"T">>)

CandidatePool == {TypeBool, TypeF64, TypePercentage, TypeString, TypeArtboard, TypeUnit, TypeGeneric}
DispatchPool ==
    CandidatePool \cup {Fn(<<"F", "n">>, TypeF64), Future(<<"F", "u", "t">>, TypeArtboard),
                        Future(<<"F", "u", "t">>, Fn(<<"F", "n">>, TypeBool))}

\* the key order of the registry's map: any order of distinct signatures
CandidateOrders ==
    {cands \in SeqsUpTo(CandidatePool, MaxCands) :
        \A i, j \in 1..Len(cands) : i # j => cands[i] # cands[j]}

Lookups == {"ok", "no_name", "no_description", "no_network", "no_node"}

\* the context of a node with one slot after its primary input
ResContext(lookup, input, implementation, field, implementations, input_type) ==
    [input_name |-> IF lookup = "no_name" THEN NoOption ELSE Some("Input"),
     input_description |-> IF lookup = "no_description" THEN NoOption ELSE Some("TODO"),
     network |-> IF lookup = "no_network" THEN NoOption
                 ELSE IF lookup = "no_node" THEN Some([nodes |-> <<>>])
                 ELSE Some([nodes |-> (ResNode :> [inputs |-> Inputs(<<WireInput, input>>)])]),
     properties_override |-> NoOption,
     reference |-> NoOption,
     is_layer |-> FALSE,
     description |-> "",
     is_visible |-> TRUE,
     is_pinned |-> FALSE,
     number_of_inputs |-> 2,
     widget_override |-> <<NoOption>>,
     implementation |-> implementation,
     field |-> <<field>>,
     implementations |-> implementations,
     input_type |-> <<input_type>>]

ProtoNode == Some([kind |-> "ProtoNode", name |-> "proto"])
Network == Some([kind |-> "Network", name |-> ""])
Field(default_type) ==
    Some([number_min |-> NoOption, number_max |-> NoOption, number_mode_range |-> NoOption,
          default_type |-> default_type])
\* the registered signatures: the primary input's type, then the slot's
Signatures(cands) == [i \in 1..Len(cands) |-> [inputs |-> Inputs(<<TypeGeneric, cands[i]>>)]]

ResInputs == {ValueInput(TV("F64", <<F(1)>>), exposed) : exposed \in BOOLEAN}

NoResult == [op |-> "none", ty |-> NoOption, res |-> "", rows |-> <<>>]

InitResolve ==
    /\ \/ \E lookup \in Lookups, input \in ResInputs, cands \in CandidateOrders,
             field \in {NoOption, Field(NoOption)} :
             /\ rcands = cands
             /\ rctx = ResContext(lookup, input, ProtoNode, field, Some(Signatures(cands)), TypeGeneric)
       \/ \E input \in ResInputs, default_type \in CandidatePool :
             /\ rcands = <<>>
             /\ rctx = ResContext("ok", input, ProtoNode, Field(Some(default_type)),
                                  Some(Signatures(<<TypeBool>>)), TypeGeneric)
       \/ \E input \in ResInputs, input_type \in CandidatePool :
             /\ rcands = <<>>
             /\ rctx = ResContext("ok", input, Network, NoOption, NoOption, input_type)
       \/ \E input \in ResInputs, implementation \in {NoOption, ProtoNode} :
             /\ rcands = <<>>
             /\ rctx = ResContext("ok", input, implementation, NoOption, NoOption, TypeGeneric)
    /\ rout = NoResult
    /\ rpc = "ready"
    /\ IdleText
    /\ IdlePanel

\* property_from_type is called on one type
Dispatch ==
    /\ rpc = "ready"
    /\ \E ty \in DispatchPool : \E result \in {property_from_type(ResNode, 1, ty, NoNumberOptions, rctx)} :
          rout' = [op |-> "dispatch", ty |-> Some(ty), res |-> result.res, rows |-> result.rows]
    /\ rpc' = "dispatched"
    /\ UNCHANGED <<rctx, rcands>>
    /\ UNCHANGED <<textVars, panelVars>>

\* the section is generated: the slot's type is resolved and its rows built
ResolveSlot ==
    /\ rpc = "ready"
    /\ rout' = [op |-> "resolve", ty |-> resolved_input_type(ResNode, 1, rctx), res |-> "Section",
                rows |-> generate_node_properties(ResNode, rctx).layout]
    /\ rpc' = "resolved"
    /\ UNCHANGED <<rctx, rcands>>
    /\ UNCHANGED <<textVars, panelVars>>

NextResolve == Dispatch \/ ResolveSlot
SpecResolve == InitResolve /\ [][NextResolve]_vars

(***************************************************************************)
(* Dispatch on the aliased types with caller-supplied number options       *)
(* (SpecAlias): the context holds one slot, DispatchAliased calls          *)
(* property_from_type with a (number_min, number_max, range) triple.       *)
(***************************************************************************)
AliasType(alias) == Concrete(<<"f", "6", "4">>, Some("f64"), Some(alias))
AliasPool == {AliasType(alias) : alias \in Aliases}
\* what the slot holds: a scalar, a vector, an unsigned vector, or a wire
AliasInputs ==
    {Literal(TV("F64", <<F(1)>>)), ValueInput(TV("F64", <<F(1)>>), TRUE),
     Literal(TV("DVec2", <<F(1), F(2)>>)), Literal(TV("UVec2", <<640, 480>>)),
     Literal(TV("U32", <<3>>)), Literal(TV("Bool", <<TRUE>>))}
NumberMins == {NoOption, Some(F(5))}
NumberMaxs == {NoOption, Some(F(50))}
NumberRanges == {NoOption, Some(<<F(2), F(8)>>)}
NoAliasResult == [op |-> "none", ty |-> NoOption, options |-> NoNumberOptions, res |-> "", rows |-> <<>>]

InitAlias ==
    /\ \E input \in AliasInputs :
          rctx = ResContext("ok", input, ProtoNode, NoOption, NoOption, TypeGeneric)
    /\ rcands = <<>>
    /\ rout = NoAliasResult
    /\ rpc = "ready"
    /\ IdleText
    /\ IdlePanel

\* property_from_type is called on an aliased type with number options
DispatchAliased ==
    /\ rpc = "ready"
    /\ \E ty \in AliasPool, number_min \in NumberMins, number_max \in NumberMaxs, range \in NumberRanges :
          \E result \in {property_from_type(ResNode, 1, ty, <<number_min, number_max, range>>, rctx)} :
              rout' = [op |-> "dispatch", ty |-> Some(ty), options |-> <<number_min, number_max, range>>,
                       res |-> result.res, rows |-> result.rows]
    /\ rpc' = "dispatched"
    /\ UNCHANGED <<rctx, rcands>>
    /\ UNCHANGED <<textVars, panelVars>>

\* types by identity: catalog entries, a type with no entry, a type without identity
Identities ==
    {TypeF64, TypeBool, TypeString, TypeArtboard, TypeUnit,
     Concrete(<<"F", "o", "o", "t", "p", "r", "i", "n", "t">>, Some("Footprint"), NoOption)}
\* no alias, an alias that is not one of the nine, or one of the nine
AliasOptions == {NoOption, Some("Custom")} \cup {Some(alias) : alias \in Aliases}

\* property_from_type is called on a type of any identity carrying any alias
DispatchIdentified ==
    /\ rpc = "ready"
    /\ \E identity \in Identities, alias \in AliasOptions,
          options \in {NoNumberOptions, <<Some(F(5)), Some(F(50)), NoOption>>} :
          \E result \in {property_from_type(ResNode, 1, [identity EXCEPT !.alias = alias], options, rctx)} :
              rout' = [op |-> "identity", ty |-> Some([identity EXCEPT !.alias = alias]), options |-> options,
                       res |-> result.res, rows |-> result.rows]
    /\ rpc' = "identified"
    /\ UNCHANGED <<rctx, rcands>>
    /\ UNCHANGED <<textVars, panelVars>>

NextAlias == DispatchAliased \/ DispatchIdentified
SpecAlias == InitAlias /\ [][NextAlias]_vars

(***************************************************************************)
(* The section of a node (SpecSection): the context answers for a node     *)
(* with or without a node-level override, with per-slot overrides on some  *)
(* slots, and GenerateSection calls generate_node_properties.              *)
(***************************************************************************)
\* the rows a per-slot override returns
OverrideRows == <<Row(<<TextLabel("override")>>)>>
WidgetOverrides == {NoOption, Some(OverrideRows), Some(<<>>)}
\* a slot's type and what it holds
SectionSlots ==
    {<<TypeBool, Literal(TV("Bool", <<TRUE>>))>>,
     <<TypeF64, Literal(TV("F64", <<F(1)>>))>>,
     <<TypeArtboard, WireInput>>}
Nodes == {"node", "layer", "hidden"}

SectionContext(lookup, inputs, types, overrides, properties, reference, implementation, node_kind) ==
    [input_name |-> IF lookup = "no_name" THEN NoOption ELSE Some("Input"),
     input_description |-> Some("TODO"),
     network |-> Some([nodes |-> (ResNode :> [inputs |-> inputs])]),
     properties_override |-> properties,
     reference |-> reference,
     is_layer |-> node_kind = "layer",
     description |-> IF node_kind = "layer" THEN "A layer" ELSE "",
     is_visible |-> node_kind # "hidden",
     is_pinned |-> node_kind = "layer",
     number_of_inputs |-> Cardinality(DOMAIN inputs),
     widget_override |-> overrides,
     implementation |-> implementation,
     field |-> [i \in DOMAIN types |-> NoOption],
     implementations |-> NoOption,
     input_type |-> types]

\* a node whose inputs stop after the primary input
PrimaryOnly == Inputs(<<WireInput>>)
\* the builders a node-level override can name
CompositeBuilders ==
    {"fill_properties", "rectangle_properties", "grid_properties", "stroke_properties",
     "offset_path_properties", "math_properties", "channel_mixer_properties",
     "selective_color_properties"}
\* a node cut down to its first n inputs
Truncated(document_node, n) ==
    [document_node EXCEPT !.types = SubSeq(document_node.types, 1, n - 1),
                          !.inputs = [i \in 0..(n - 1) |-> document_node.inputs[i]]]
ShortNodes ==
    {[kind |-> kind, types |-> <<>>, inputs |-> PrimaryOnly] : kind \in CompositeBuilders}
    \cup {Truncated(document_node, 4) : document_node \in StrokeNodes}
    \cup {Truncated(document_node, 2) : document_node \in ChannelMixerNodes}
\* Fill nodes whose backup color slot holds a number
MistypedFillNodes ==
    {Node("fill_properties", Untyped(3),
          <<WireInput, Literal(TV("Fill", fill)), Literal(TV("F64", <<F(1)>>)),
            Literal(TV("Gradient", GradientB))>>) :
        fill \in {FillNone, FillSolid("red")}}
OverrideNodes ==
    FillNodes \cup RectangleNodes \cup GridNodes \cup StrokeNodes \cup OffsetPathNodes \cup MathNodes
    \cup ChannelMixerNodes \cup SelectiveColorNodes \cup ShortNodes \cup MistypedFillNodes
NoSection ==
    [op |-> "none", name |-> "", description |-> "", visible |-> FALSE, pinned |-> FALSE, id |-> "",
     built |-> <<>>, rows |-> <<>>]

InitSection ==
    /\ \/ \E n \in 0..MaxSlots : \E slots \in [1..n -> SectionSlots], overrides \in [1..n -> WidgetOverrides],
             lookup \in {"ok", "no_name"}, reference \in {NoOption, Some("Custom")},
             implementation \in {NoOption, ProtoNode, Network}, node_kind \in Nodes :
             rctx = SectionContext(lookup, Inputs(<<WireInput>> \o [i \in 1..n |-> slots[i][2]]),
                                   [i \in 1..n |-> slots[i][1]], overrides, NoOption, reference,
                                   implementation, node_kind)
       \/ \E overridden \in OverrideNodes, override \in {NoOption, Some(OverrideRows)}, node_kind \in Nodes :
             rctx = SectionContext("ok", overridden.inputs, overridden.types,
                                   [i \in DOMAIN overridden.types |-> override],
                                   Some(overridden.kind), Some(overridden.kind), Network, node_kind)
    /\ rcands = <<>>
    /\ rout = NoSection
    /\ rpc = "ready"
    /\ IdleText
    /\ IdlePanel

\* generate_node_properties is called for the node
GenerateSection ==
    /\ rpc = "ready"
    /\ \E section \in {generate_node_properties(ResNode, rctx)} :
          rout' = [op |-> "section", name |-> section.name, description |-> section.description,
                   visible |-> section.visible, pinned |-> section.pinned, id |-> section.id,
                   built |-> section_layout(ResNode, rctx), rows |-> section.layout]
    /\ rpc' = "generated"
    /\ UNCHANGED <<rctx, rcands>>
    /\ UNCHANGED <<textVars, panelVars>>

NextSection == GenerateSection
SpecSection == InitSection /\ [][NextSection]_vars

(***************************************************************************)
(* Properties of the panel (Spec).                                         *)
(***************************************************************************)
\* the last edit was on a control a builder made
EditedBy(builder, kind) ==
    pc = "emitted" /\ ctl.widget.builder = builder /\ ctl.widget.widget = kind
\* the tag of the value the slot held when the panel was built
SnapTag(index) == IF index \in DOMAIN snap THEN snap[index].value.tag ELSE ""
IsWrite(m, index, tag) ==
    m.type = "SetInputValue" /\ m.node_id = PanelNode /\ m.input_index = index /\ m.value.tag = tag

\* C1: in the Fill panel, toggling the Solid/Gradient switch emits one
\* Batched message holding a write of the backup slot of the representation
\* being left (slot 2 for a color, slot 3 for a gradient) and the write of
\* the new fill to slot 1.
C1_FillModeSwitchIsOneBatch ==
    (EditedBy("fill_properties", "RadioInput") /\ ctl.entry \in {"Solid", "Gradient"}) =>
        /\ msg.type = "Batched"
        /\ \E i \in 1..Len(msg.msgs) : IsWrite(msg.msgs[i], 1, "Fill")
        /\ \E i \in 1..Len(msg.msgs) :
              IF snap[1].value.v.kind = "Gradient" THEN IsWrite(msg.msgs[i], 3, "Gradient")
              ELSE IsWrite(msg.msgs[i], 2, "OptionalColor")

\* C2: in the Rectangle panel, toggling the corner-radius mode emits one
\* Batched message of exactly two writes, the flag to slot 3 and the radius
\* to slot 4: uniform x -> Individual gives flag TRUE and [x, x, x, x];
\* individual [a, b, c, d] -> Uniform gives flag FALSE and a.
C2_CornerModeToggleReshapes ==
    EditedBy("rectangle_properties", "RadioInput") =>
        /\ msg.type = "Batched"
        /\ Len(msg.msgs) = 2
        /\ IsWrite(msg.msgs[1], corner_rounding_type_index, "Bool")
        /\ msg.msgs[1].value.v[1] = (ctl.entry = "Individual")
        /\ msg.msgs[2].type = "SetInputValue" /\ msg.msgs[2].input_index = corner_radius_index
        /\ \A held \in {as_non_exposed_value(snap[corner_radius_index])} :
              /\ (ctl.entry = "Individual" /\ Len(held) = 1 /\ held[1].tag = "F64") =>
                    /\ msg.msgs[2].value.tag = "F64Array4"
                    /\ msg.msgs[2].value.v = <<held[1].v[1], held[1].v[1], held[1].v[1], held[1].v[1]>>
              /\ (ctl.entry = "Uniform" /\ Len(held) = 1 /\ held[1].tag = "F64Array4") =>
                    /\ msg.msgs[2].value.tag = "F64"
                    /\ msg.msgs[2].value.v = <<held[1].v[1]>>

\* uniform 5.0 toggled to Individual: [5, 5, 5, 5] with the flag TRUE
C2_Witness ==
    /\ EditedBy("rectangle_properties", "RadioInput")
    /\ ctl.entry = "Individual"
    /\ snap[corner_radius_index] = Literal(TV("F64", <<F(5)>>))
    /\ msg.msgs[2].value = TV("F64Array4", <<F(5), F(5), F(5), F(5)>>)
    /\ msg.msgs[1].value = TV("Bool", <<TRUE>>)

\* C3 as stated: every write a live update emits carries the variant the
\* slot held when the panel was built.
C3_TagPreserved ==
    pc = "emitted" =>
        \A i \in 1..Len(Writes(msg)) :
            Writes(msg)[i].value.tag = SnapTag(Writes(msg)[i].input_index)

\* the controls that write the other shape of a slot that has two:
\* number_widget on a 2D vector, vec2_widget on a scalar, and the
\* Rectangle's Uniform / Individual toggle
Reshapes(index) ==
    \/ ctl.widget.builder = "number_widget" /\ SnapTag(index) = "DVec2"
    \/ ctl.widget.builder = "vec2_widget" /\ SnapTag(index) = "F64"
    \/ /\ ctl.widget.builder = "rectangle_properties" /\ ctl.widget.widget = "RadioInput"
       /\ index = corner_radius_index

\* C3, amended: every write a live update emits carries the variant the
\* slot held when the panel was built, except that number_widget on a slot
\* holding a DVec2 writes an F64, vec2_widget on a slot holding an F64
\* writes a DVec2, and the Rectangle's mode toggle writes slot 4 in the
\* shape of the mode chosen.
C3_TagPreservedUnlessReshaped ==
    pc = "emitted" =>
        \A i \in 1..Len(Writes(msg)) :
            \A write \in {Writes(msg)[i]} :
                CASE ctl.widget.builder = "number_widget" /\ SnapTag(write.input_index) = "DVec2" ->
                        write.value.tag = "F64"
                  [] ctl.widget.builder = "vec2_widget" /\ SnapTag(write.input_index) = "F64" ->
                        write.value.tag = "DVec2"
                  [] Reshapes(write.input_index) ->
                        write.value.tag = IF ctl.entry = "Individual" THEN "F64Array4" ELSE "F64"
                  [] OTHER -> write.value.tag = SnapTag(write.input_index)

\* the Grid's Spacing edited in isometric mode while it holds a vector
C3_Witness ==
    /\ EditedBy("number_widget", "NumberInput")
    /\ node.kind = "grid_properties"
    /\ SnapTag(msg.input_index) = "DVec2"
    /\ msg.value.tag = "F64"

\* C4: every interactive control of a panel (the expose buttons set aside)
\* is bound with a live-update callback and a commit callback, and the
\* commit callback yields only AddTransaction, with no value.
C4_EveryControlUpdatesAndCommits ==
    /\ pc = "fresh" =>
          \A layout \in {Shown} : \A site \in Sites(layout) :
              SiteWidget(layout, site).widget # "ParameterExposeButton" =>
                  SiteOnUpdate(layout, site).fn # "none" /\ SiteOnCommit(layout, site)
    /\ pc = "committed" => msg.type = "AddTransaction" /\ msg.value.tag = "None"

(***************************************************************************)
(* Properties of the free-text controls (SpecText, SpecRound).             *)
(***************************************************************************)
\* the numbers a written list value holds, in order
RECURSIVE Flatten(_)
Flatten(points) == IF points = <<>> THEN <<>> ELSE Head(points) \o Flatten(Tail(points))
Numbers(value) == IF value.tag = "VecDVec2" THEN Flatten(value.v) ELSE value.v
\* the non-empty tokens the user typed
Typed == NonEmpty(ttoks)

\* C5: for each free-text control, if a non-empty token of the typed text
\* is no number the live update yields NoOp, and a SetInputValue it yields
\* carries exactly the numbers typed, in order.
C5_FreeTextAllOrNothing ==
    tpc = "emitted" =>
        /\ (\E i \in 1..Len(Typed) : Len(ParseF64(Typed[i])) = 0) => tmsg.type = "NoOp"
        /\ tmsg.type = "SetInputValue" =>
              Numbers(tmsg.value) = [i \in 1..Len(Typed) |-> ParseF64(Typed[i])[1]]

\* C6: the text vec_f64_input shows for a list L, fed to its live update,
\* yields the SetInputValue that writes exactly L to the slot.
C6_FloatListRoundTrip ==
    (tctl = "vec_f64_input" /\ tpc = "echoed") =>
        /\ tmsg.type = "SetInputValue"
        /\ tmsg.node_id = TextNode /\ tmsg.input_index = TextSlot(tctl)
        /\ tmsg.value.tag = "VecF64"
        /\ tmsg.value.v = tval.v

\* the list [1.0, 2.0, 3.5], shown as "1, 2, 3.5", re-parsed
C6_Witness ==
    /\ tctl = "vec_f64_input" /\ tpc = "echoed"
    /\ tval.v = <<F(1), F(2), Fd(35, 1)>>
    /\ tfield = <<"1", ",", " ", "2", ",", " ", "3", ".", "5">>
    /\ tmsg.type = "SetInputValue" /\ tmsg.value.v = <<F(1), F(2), Fd(35, 1)>>

(***************************************************************************)
(* Properties of type resolution and dispatch (SpecResolve).               *)
(***************************************************************************)
\* the slot's type is chosen among the registered signatures
Polymorphic ==
    /\ Len(rctx.implementation) = 1 /\ rctx.implementation[1].kind = "ProtoNode"
    /\ Len(rctx.implementations) = 1
    /\ (Len(rctx.field[1]) = 1 => Len(rctx.field[1][1].default_type) = 0)
\* the candidates dispatch accepts
Renderable ==
    {i \in 1..Len(rcands) : property_from_type(ResNode, 1, rcands[i], NoNumberOptions, rctx).res = "Ok"}
LookupsSucceed ==
    /\ Len(rctx.input_name) = 1 /\ Len(rctx.input_description) = 1
    /\ Len(rctx.network) = 1 /\ ResNode \in DOMAIN rctx.network[1].nodes
\* a concrete type no alias and no catalog entry matches
NoWidget(ty) ==
    /\ ty.kind = "Concrete"
    /\ ~(Len(ty.alias) = 1 /\ ty.alias[1] \in Aliases)
    /\ ~(Len(ty.id) = 1 /\ ty.id[1] \in CatalogIds)
\* the row shown for a type without a widget: its last widget is a label
\* whose tooltip is a fixed sentence followed by the type's name
Unsupported(row, ty) ==
    /\ Len(row.widgets) > 0
    /\ row.widgets[Len(row.widgets)].widget = "TextLabel"
    /\ Len(row.widgets[Len(row.widgets)].tooltip) = 2
    /\ row.widgets[Len(row.widgets)].tooltip[2] = ty.name

\* C7: for a polymorphic slot with no default type, the resolved type is a
\* candidate dispatch accepts, and none of those has a smaller name; no
\* type is resolved when dispatch accepts no candidate.
C7_SmallestRenderableCandidate ==
    (rpc = "resolved" /\ Polymorphic) =>
        IF Renderable = {} THEN Len(rout.ty) = 0
        ELSE /\ Len(rout.ty) = 1
             /\ \E i \in Renderable : rcands[i] = rout.ty[1]
             /\ \A i \in Renderable : ~LexLess(type_name(rcands[i]), type_name(rout.ty[1]))

\* candidates {Artboard (no widget), f64, bool}: bool is resolved
C7_Witness ==
    /\ rpc = "resolved" /\ Polymorphic
    /\ rcands = <<TypeArtboard, TypeF64, TypeBool>>
    /\ rout.ty = <<TypeBool>>

\* C8: when the lookups succeed and a polymorphic slot has candidates of
\* which dispatch accepts none, the section still holds the 'unsupported'
\* row of one of them.
C8_UnrenderableSlotShowsFallback ==
    (rpc = "resolved" /\ Polymorphic /\ LookupsSucceed /\ Len(rcands) > 0 /\ Renderable = {}) =>
        \E r \in 1..Len(rout.rows) : \E i \in 1..Len(rcands) : Unsupported(rout.rows[r], rcands[i])

\* C9 as stated: dispatch on a concrete type without a widget returns Err
\* with exactly one row, whose last widget is a label whose tooltip holds
\* the type's name; and such a type is never the one resolved.
C9_NoWidgetGivesOneFallbackRow ==
    /\ (rpc = "dispatched" /\ NoWidget(rout.ty[1])) =>
          /\ rout.res = "Err"
          /\ Len(rout.rows) = 1
          /\ Unsupported(rout.rows[1], rout.ty[1])
    /\ (rpc = "resolved" /\ Polymorphic /\ Len(rout.ty) = 1) => ~NoWidget(rout.ty[1])

\* C9, amended: when the input's name, its description, the network and
\* the node are found, dispatch on a concrete type without a widget returns
\* Err with exactly one row, whose last widget is a label whose tooltip
\* holds the type's name; and such a type is never the one resolved.
C9_NoWidgetGivesOneFallbackRowIfFound ==
    /\ (rpc = "dispatched" /\ NoWidget(rout.ty[1]) /\ LookupsSucceed) =>
          /\ rout.res = "Err"
          /\ Len(rout.rows) = 1
          /\ Unsupported(rout.rows[1], rout.ty[1])
    /\ (rpc = "resolved" /\ Polymorphic /\ Len(rout.ty) = 1) => ~NoWidget(rout.ty[1])

\* dispatch on Artboard with everything found
C9_Witness ==
    /\ rpc = "dispatched" /\ LookupsSucceed
    /\ rout.ty = <<TypeArtboard>>
    /\ rout.res = "Err" /\ Len(rout.rows) = 1
    /\ Unsupported(rout.rows[1], TypeArtboard)

\* C10 as stated: every Err of dispatch carries at least one row.
C10_ErrCarriesARow ==
    (rpc = "dispatched" /\ rout.res = "Err") => Len(rout.rows) >= 1

\* C10, amended: an Err of dispatch carries no row when the input's name,
\* its description, the network or the node is not found, and exactly one
\* row otherwise.
C10_ErrCarriesARowIfFound ==
    (rpc = "dispatched" /\ rout.res = "Err") =>
        Len(rout.rows) = IF LookupsSucceed THEN 1 ELSE 0

\* dispatch with no description for the input: Err without a row
C10_Witness ==
    /\ rpc = "dispatched"
    /\ Len(rctx.input_description) = 0
    /\ rout.res = "Err" /\ Len(rout.rows) = 0

(***************************************************************************)
(* Properties of dispatch on aliased types (SpecAlias).                    *)
(***************************************************************************)
\* the number fields of the rows dispatch built
NumberFields ==
    UNION {{<<r, w>> : w \in {k \in 1..Len(rout.rows[r].widgets) :
                                  rout.rows[r].widgets[k].widget = "NumberInput"}} :
           r \in 1..Len(rout.rows)}
FieldProps(site) == rout.rows[site[1]].widgets[site[2]].props
AliasOf == rout.ty[1].alias[1]
NoOptions == rout.options = NoNumberOptions
\* the bounds and the kind of field an alias gives when nothing is supplied
AliasMin(alias) ==
    CASE alias \in {"Percentage", "Fraction", "PixelLength", "Length", "SeedValue"} -> Some(F(0))
      [] alias = "SignedPercentage" -> Some(F(-100))
      [] alias = "Angle" -> Some(F(-180))
      [] alias = "IntegerCount" -> Some(F(1))
      [] alias = "Resolution" -> Some(F(64))
AliasMax(alias) ==
    CASE alias \in {"Percentage", "SignedPercentage"} -> Some(F(100))
      [] alias = "Angle" -> Some(F(180))
      [] alias = "Fraction" -> Some(F(1))
      [] alias \in {"PixelLength", "Length", "IntegerCount", "SeedValue"} -> NoOption
AliasInteger(alias) == alias \in {"IntegerCount", "SeedValue"}

\* C11: with no min, max or range supplied, the number field built for an
\* aliased slot has the alias's bounds: Percentage 0..100, SignedPercentage
\* -100..100, Angle -180..180, Fraction 0..1, PixelLength and Length min 0
\* and no max, IntegerCount an integer from 1, SeedValue an integer from 0,
\* Resolution two fields from 64.
C11_AliasDefaultBounds ==
    (rpc = "dispatched" /\ NoOptions) =>
        /\ \A site \in NumberFields :
              /\ FieldProps(site).min = AliasMin(AliasOf)
              /\ AliasOf # "Resolution" =>
                    /\ FieldProps(site).max = AliasMax(AliasOf)
                    /\ FieldProps(site).is_integer = AliasInteger(AliasOf)
        /\ (AliasOf = "Resolution" /\ rout.rows[1].widgets # <<>>
              /\ as_non_exposed_value(rctx.network[1].nodes[ResNode].inputs[1]) # <<>>
              /\ as_non_exposed_value(rctx.network[1].nodes[ResNode].inputs[1])[1].tag \in {"DVec2", "UVec2", "F64"})
              => Cardinality(NumberFields) = 2

\* a Percentage slot holding 1.0: one field from 0 to 100
C11_Witness ==
    /\ rpc = "dispatched" /\ NoOptions
    /\ AliasOf = "Percentage"
    /\ \E site \in NumberFields :
          FieldProps(site).min = Some(F(0)) /\ FieldProps(site).max = Some(F(100))

\* C12: a supplied min, max or range is the bound of the number field built
\* for an aliased slot: the range's ends when a range is supplied, else the
\* supplied min and the supplied max; and the field stays an integer field
\* for IntegerCount and SeedValue.
C12_SuppliedBoundsOverride ==
    rpc = "dispatched" =>
        \A site \in NumberFields :
            /\ rout.options[3] # <<>> =>
                  /\ FieldProps(site).min = Some(rout.options[3][1][1])
                  /\ FieldProps(site).max = Some(rout.options[3][1][2])
            /\ (rout.options[3] = <<>> /\ rout.options[1] # <<>>) =>
                  FieldProps(site).min = rout.options[1]
            /\ (rout.options[3] = <<>> /\ rout.options[2] # <<>>) =>
                  FieldProps(site).max = rout.options[2]
            /\ AliasInteger(AliasOf) => FieldProps(site).is_integer

(***************************************************************************)
(* Properties of the section (SpecSection).                                *)
(***************************************************************************)
\* generate_node_properties returned (no builder it called panicked)
Returned == rpc = "generated" /\ ~(Len(rout.built) = 1 /\ is_panicked(rout.built[1]))
\* the rows of slot i: the per-slot override's if there is one, else those
\* dispatch builds for the resolved type
ExpectedSlot(i) ==
    IF Len(rctx.widget_override[i]) = 1 THEN rctx.widget_override[i][1]
    ELSE dispatch_rows(resolved_input_type(ResNode, i, rctx), ResNode, i,
                       field_number_options(ResNode, i, rctx), rctx)
RECURSIVE ExpectedFrom(_)
ExpectedFrom(i) ==
    IF i >= rctx.number_of_inputs THEN <<>> ELSE ExpectedSlot(i) \o ExpectedFrom(i + 1)

C14_LayoutNeverEmpty ==
    Returned =>
        /\ Len(rout.rows) > 0
        /\ Len(rout.built) = 0 =>
              /\ Len(rout.rows) = 1
              /\ Len(rout.rows[1].widgets) = 1
              /\ rout.rows[1].widgets[1].widget = "TextLabel"
              /\ rout.rows[1].widgets[1].text =
                    IF rctx.is_layer THEN "Layer has no properties" ELSE "Node has no properties"

\* a layer with only its primary input
C14_Witness ==
    /\ Returned
    /\ rctx.is_layer /\ rctx.number_of_inputs = 1
    /\ Len(rout.rows) = 1
    /\ rout.rows[1].widgets[1].text = "Layer has no properties"

\* C18: the section's name is the node's reference when it has one, else
\* the proto node's name when the implementation is a proto node, else
\* 'Custom Node'; its id, description, visible and pinned are the node's.
C18_SectionHeader ==
    Returned =>
        /\ rout.name = IF Len(rctx.reference) = 1 THEN rctx.reference[1]
                       ELSE IF Len(rctx.implementation) = 1 /\ rctx.implementation[1].kind = "ProtoNode"
                       THEN rctx.implementation[1].name
                       ELSE "Custom Node"
        /\ rout.id = ResNode
        /\ rout.description = rctx.description
        /\ rout.visible = rctx.is_visible
        /\ rout.pinned = rctx.is_pinned

\* a referenced proto node takes the reference's name
C18_Witness ==
    /\ Returned
    /\ rctx.reference = Some("Custom") /\ rctx.implementation = ProtoNode
    /\ rout.name = "Custom"

(***************************************************************************)
(* Properties of the composite builders.                                   *)
(***************************************************************************)
\* the node the section was generated for
SectionNode == rctx.network[1].nodes[ResNode]
\* the number of inputs a builder's slot indices reach
Reach(builder) ==
    CASE builder = "fill_properties" -> 4
      [] builder = "rectangle_properties" -> 6
      [] builder = "grid_properties" -> 6
      [] builder = "stroke_properties" -> 8
      [] builder = "offset_path_properties" -> 4
      [] builder = "math_properties" -> 3
      [] builder = "channel_mixer_properties" -> 19
      [] builder = "selective_color_properties" -> 39
\* the input list is shorter than the slot indices the builder references
ShortInputs == rctx.number_of_inputs < Reach(rctx.properties_override[1])
\* a slot the builder reads holds a value of another type
MistypedSibling == SectionNode.inputs \in {document_node.inputs : document_node \in MistypedFillNodes}

\* C15: a composite builder called on a node whose input list is shorter
\* than the slot indices it references, or whose referenced sibling slot
\* holds a value of another type, returns zero rows and does not panic.
C15_CompositeBuildersDegrade ==
    (rpc = "generated" /\ rctx.properties_override # <<>> /\ (ShortInputs \/ MistypedSibling))
        => Len(rout.built) = 0

(***************************************************************************)
(* Catalog dispatch on a slot in every condition (SpecCatalog): the slot   *)
(* holds a literal, is exposed, is wired, lies outside the input list, or  *)
(* its node is missing from the network; DispatchCatalog calls             *)
(* property_from_type on slot 1 with any catalog type.                     *)
(***************************************************************************)
CatalogTypes == {slot[1] : slot \in SlotCatalog}
Holdings == {"literal", "exposed", "wired", "short", "no_node"}
CatalogInputs(value, holding) ==
    CASE holding = "literal" -> Inputs(<<WireInput, Literal(value)>>)
      [] holding = "exposed" -> Inputs(<<WireInput, ValueInput(value, TRUE)>>)
      [] holding = "wired" -> Inputs(<<WireInput, WireInput>>)
      [] OTHER -> Inputs(<<WireInput>>)
CatalogContext(holding, value, ty) ==
    [SectionContext("ok", CatalogInputs(value, holding), <<ty>>, <<NoOption>>, NoOption, NoOption,
                    Network, "node")
        EXCEPT !.network = IF holding = "no_node" THEN Some([nodes |-> <<>>]) ELSE @]

InitCatalog ==
    /\ \E slot \in SlotCatalog, holding \in Holdings : rctx = CatalogContext(holding, slot[2], slot[1])
    /\ rcands = <<>>
    /\ rout = NoResult
    /\ rpc = "ready"
    /\ IdleText
    /\ IdlePanel

\* property_from_type is called on slot 1 with a catalog type
DispatchCatalog ==
    /\ rpc = "ready"
    /\ \E ty \in CatalogTypes : \E result \in {property_from_type(ResNode, 1, ty, NoNumberOptions, rctx)} :
          rout' = [op |-> "catalog", ty |-> Some(ty), res |-> result.res, rows |-> result.rows]
    /\ rpc' = "dispatched"
    /\ UNCHANGED <<rctx, rcands>>
    /\ UNCHANGED <<textVars, panelVars>>

NextCatalog == DispatchCatalog
SpecCatalog == InitCatalog /\ [][NextCatalog]_vars

(***************************************************************************)
(* Properties of catalog dispatch (SpecCatalog).                           *)
(***************************************************************************)
Dispatched == rpc = "dispatched" /\ rout.op = "catalog"
\* the node is missing from the network, or slot 1 lies outside its input list
LookupFails ==
    \/ Len(get_document_node(ResNode, rctx)) = 0
    \/ 1 \notin DOMAIN get_document_node(ResNode, rctx)[1].inputs
EmptyRows(rows) == \A r \in 1..Len(rows) : Len(rows[r].widgets) = 0

\* C16: catalog dispatch on a slot whose node is missing or whose index is
\* outside the input list does not abort and returns no rows or rows with
\* an empty widget list, for every catalog type.
C16_LookupFailuresAreLocal ==
    (Dispatched /\ LookupFails) => (rout.res # "Panic" /\ EmptyRows(rout.rows))

\* slot 1 is exposed to the graph: a wire, or a value with the exposed flag
SlotExposed ==
    /\ ~LookupFails
    /\ is_exposed(get_document_node(ResNode, rctx)[1].inputs[1])
PassiveKinds == {"ParameterExposeButton", "TextLabel", "Separator"}

\* C17: the rows catalog dispatch builds for an exposed slot hold only the
\* expose button, labels and separators, for every catalog type.
C17_ExposedSlotHasNoEditor ==
    (Dispatched /\ SlotExposed)
        => \A r \in 1..Len(rout.rows) : \A w \in 1..Len(rout.rows[r].widgets) :
              rout.rows[r].widgets[w].widget \in PassiveKinds

(***************************************************************************)
(* The Stroke, Offset Path and Channel Mixer panels (SpecComposite): the   *)
(* panel is built for a node, the user changes or releases one control,    *)
(* and the dispatcher applies the message.                                 *)
(***************************************************************************)
InitComposite ==
    /\ node \in StrokeNodes \cup OffsetPathNodes \cup ChannelMixerNodes \cup SelectiveColorNodes
    /\ snap = node.inputs
    /\ ctl = NoControl
    /\ msg = NoMsg
    /\ pc = "fresh"
    /\ IdleText
    /\ IdleResolve

NextComposite == Edit \/ Commit \/ Apply
SpecComposite == InitComposite /\ [][NextComposite]_vars

(***************************************************************************)
(* Properties of the composite panels (SpecComposite).                     *)
(***************************************************************************)
\* the slot held a value of this variant when the panel was built
Stored(index, tag) == snap[index].kind = "Value" /\ snap[index].value.tag = tag
\* the NumberInput controls of a row
NumberControls(row) == {w \in 1..Len(row.widgets) : row.widgets[w].widget = "NumberInput"}

StrokePanel == node.kind = "stroke_properties"
OffsetPathPanel == node.kind = "offset_path_properties"
LineJoinSlot == IF StrokePanel THEN 6 ELSE 2
MiterLimitRow == IF StrokePanel THEN 7 ELSE 3
\* the line join the panel was built on: a slot that holds no line join counts as Miter
LineJoinValue == IF Stored(LineJoinSlot, "LineJoin") THEN snap[LineJoinSlot].value.v[1] ELSE "Miter"
\* a dash lengths slot that holds no float list counts as empty
DashLengthsEmpty == IF Stored(3, "VecF64") THEN Len(snap[3].value.v) = 0 ELSE TRUE

\* C19: in the Stroke and Offset Path panels the miter limit control is
\* disabled exactly when the line join is not Miter, and in the Stroke panel
\* the dash offset control is disabled exactly when the dash lengths list
\* is empty.
C19_DisabledBySiblingSlots ==
    (StrokePanel \/ OffsetPathPanel) =>
        \E layout \in {Shown} :
            /\ NumberControls(layout[MiterLimitRow]) # {}
            /\ \A w \in NumberControls(layout[MiterLimitRow]) :
                  layout[MiterLimitRow].widgets[w].disabled <=> (LineJoinValue # "Miter")
            /\ StrokePanel =>
                  /\ NumberControls(layout[4]) # {}
                  /\ \A w \in NumberControls(layout[4]) :
                        layout[4].widgets[w].disabled <=> DashLengthsEmpty

\* a Stroke panel on a Bevel join and a non-empty dash list: the miter limit
\* is disabled and the dash offset is not
C19_Witness ==
    /\ StrokePanel
    /\ LineJoinValue = "Bevel"
    /\ ~DashLengthsEmpty
    /\ \E layout \in {Shown} :
          /\ \E w \in NumberControls(layout[7]) : layout[7].widgets[w].disabled
          /\ \E w \in NumberControls(layout[4]) : ~layout[4].widgets[w].disabled

MixerPanel == node.kind = "channel_mixer_properties"
IsMonochrome == IF Stored(1, "Bool") THEN snap[1].value.v[1] ELSE FALSE
\* the panel is built when slot 18 holds an output channel
MixerBuilt == MixerPanel /\ Stored(18, "RedGreenBlue")
\* the slots of the four coefficient rows
CoefficientSlots ==
    IF IsMonochrome THEN <<2, 3, 4, 5>>
    ELSE CASE snap[18].value.v[1] = "Red" -> <<6, 7, 8, 9>>
           [] snap[18].value.v[1] = "Green" -> <<10, 11, 12, 13>>
           [] snap[18].value.v[1] = "Blue" -> <<14, 15, 16, 17>>
HasSelector(layout) ==
    \E r \in 1..Len(layout) : Len(layout[r].widgets) > 0 /\ layout[r].widgets[1].text = "Output Channel"
\* the row exposes, edits and displays the slot
RowEdits(row, slot) ==
    /\ row.widgets[1].widget = "ParameterExposeButton"
    /\ row.widgets[1].on_update.out.input_index = slot
    /\ NumberControls(row) # {}
    /\ \A w \in NumberControls(row) :
          /\ row.widgets[w].on_update.index = slot
          /\ row.widgets[w].on_update.node_id = PanelNode
          /\ row.widgets[w].shown = snap[slot].value
\* the slot sets of the monochrome group and of the three output channels
SlotSet(is_monochrome, is_output_channel) ==
    {channels(is_monochrome, is_output_channel)[i][1] : i \in 1..4}
SlotSets ==
    <<SlotSet(TRUE, "Red"), SlotSet(FALSE, "Red"), SlotSet(FALSE, "Green"), SlotSet(FALSE, "Blue")>>

SelectivePanel == node.kind = "selective_color_properties"
\* the panel is built when slot 38 holds a color band
SelectiveBuilt == SelectivePanel /\ Stored(38, "SelectiveColorChoice")
\* the number k = 0..8 of the band chosen, in the order of the selector
BandNumber == CHOOSE k \in 0..8 : SelectiveColorChoices[k + 1] = snap[38].value.v[1]
BandSlots(k) == (2 + 4 * k)..(5 + 4 * k)
\* the slots a row exposes or edits
RowSlots(row) ==
    {row.widgets[w].on_update.out.input_index :
        w \in {v \in 1..Len(row.widgets) : row.widgets[v].widget = "ParameterExposeButton"}}
    \cup {row.widgets[w].on_update.index : w \in NumberControls(row)}

\* C21: a Selective Color panel on band number k shows four CMYK rows that
\* edit exactly the slots 2+4k .. 5+4k; the nine slot sets are pairwise
\* disjoint, and an edit of a shown row writes only its own slot.
C21_SelectiveColorSlots ==
    SelectiveBuilt =>
        /\ \E layout \in {Shown} :
              /\ Len(layout) = 6
              /\ \A i \in 1..4 : RowEdits(layout[1 + i], 2 + 4 * BandNumber + (i - 1))
              /\ UNION {RowSlots(layout[1 + i]) : i \in 1..4} = BandSlots(BandNumber)
        /\ \A j, k \in 1..9 : j # k =>
              {cmyk(SelectiveColorChoices[j])[i][1] : i \in 1..4}
                  \cap {cmyk(SelectiveColorChoices[k])[i][1] : i \in 1..4} = {}
        /\ (pc = "emitted" /\ ctl.widget.widget = "NumberInput") =>
              /\ msg.type = "SetInputValue"
              /\ msg.node_id = PanelNode
              /\ msg.input_index = ctl.widget.on_update.index
        /\ (pc = "stale" /\ ctl.widget.widget = "NumberInput") =>
              \A i \in DOMAIN snap : i # ctl.widget.on_update.index => node.inputs[i] = snap[i]

\* the Magenta adjustment of the Blacks band (k = 8) was edited and the
\* dispatcher stored the new value in slot 35
C21_Witness ==
    /\ SelectiveBuilt
    /\ snap[38].value.v[1] = "Blacks"
    /\ pc = "stale"
    /\ ctl.widget.widget = "NumberInput"
    /\ ctl.widget.on_update.index = 35
    /\ node.inputs[35] # snap[35]

(***************************************************************************)
(* Properties of the Grid panel (Spec).                                    *)
(***************************************************************************)
GridPanel == node.kind = "grid_properties"
\* the grid type the panel was built on, "" when the slot is exposed
GridTypeShown ==
    IF Stored(1, "GridType") /\ ~snap[1].exposed THEN snap[1].value.v[1] ELSE ""
\* the row starts with the expose button of the slot and the label `name`
RowFor(row, name, slot) ==
    /\ Len(row.widgets) >= 2
    /\ row.widgets[1].widget = "ParameterExposeButton"
    /\ row.widgets[1].on_update.out.input_index = slot
    /\ row.widgets[2].widget = "TextLabel"
    /\ row.widgets[2].text = name
\* the labels of the row's number fields, in order, all bound to the slot
FieldLabels(row) == [i \in 1..Len(row.widgets) |-> row.widgets[i].props.label]
Fields(row, slot, labels) ==
    \E at \in [1..Len(labels) -> 1..Len(row.widgets)] :
        /\ \A i, j \in 1..Len(labels) : i < j => at[i] < at[j]
        /\ {at[i] : i \in 1..Len(labels)} = NumberControls(row)
        /\ \A i \in 1..Len(labels) :
              /\ FieldLabels(row)[at[i]] = labels[i]
              /\ row.widgets[at[i]].on_update.index = slot
HasRowLabelled(layout, name) ==
    \E r \in 1..Len(layout) : Len(layout[r].widgets) >= 2 /\ layout[r].widgets[2].text = name

ExprChars == {" ", "\t", "+", "-", "*", "/", "^", "%", "A", "B"}
expression_index == 1
ExpressionClosure == Closure("expression", TextNode, expression_index, <<>>)

InitMath ==
    /\ tctl = "math_properties"
    /\ tval = TV("String", <<>>)
    /\ tfield \in SeqsUpTo(ExprChars, MaxExprLen)
    /\ ttoks = <<>>
    /\ tmsg = NoMsg
    /\ tpc = "typed"
    /\ IdlePanel
    /\ IdleResolve

\* the expression field's on_update fires on the text it holds
MathLiveUpdate ==
    /\ tpc \in {"typed", "retyped"}
    /\ tmsg' = Invoke(ExpressionClosure, tfield)
    /\ tpc' = IF tpc = "typed" THEN "emitted" ELSE "reemitted"
    /\ UNCHANGED <<tctl, tval, tfield, ttoks>>
    /\ UNCHANGED <<panelVars, resVars>>

\* the dispatch fabric applies the message to the slot
MathApply ==
    /\ tpc \in {"emitted", "reemitted"}
    /\ tval' = ApplyToSlot(tmsg, TextNode, expression_index, tval)
    /\ tpc' = IF tpc = "emitted" THEN "applied" ELSE "reapplied"
    /\ UNCHANGED <<tctl, tfield, ttoks, tmsg>>
    /\ UNCHANGED <<panelVars, resVars>>

\* the stored text is typed into the field again
MathRetype ==
    /\ tpc = "applied"
    /\ ttoks' = tfield
    /\ tfield' = tval.v
    /\ tpc' = "retyped"
    /\ UNCHANGED <<tctl, tval, tmsg>>
    /\ UNCHANGED <<panelVars, resVars>>

NextMath == MathLiveUpdate \/ MathApply \/ MathRetype
SpecMath == InitMath /\ [][NextMath]_vars

(***************************************************************************)
(* Properties of the expression field (SpecMath).                          *)
(***************************************************************************)
InfixOperators == {"+", "-", "*", "/", "^", "%"}
NotBlank(text) == {i \in 1..Len(text) : text[i] \notin {" ", "\t", "\n"}}
\* the text between its first and its last character that is not whitespace
Trimmed(text) ==
    IF NotBlank(text) = {} THEN <<>>
    ELSE SubSeq(text,
                CHOOSE i \in NotBlank(text) : \A j \in NotBlank(text) : i <= j,
                CHOOSE i \in NotBlank(text) : \A j \in NotBlank(text) : j <= i)
Normalized(text) ==
    IF Len(Trimmed(text)) = 1 /\ Trimmed(text)[1] \in InfixOperators
    THEN <<"A", " ", Trimmed(text)[1], " ", "B">>
    ELSE Trimmed(text)

\* C23: the expression field's live update stores the typed text trimmed, a
\* bare infix operator as "A <op> B", any other text as the trimmed text;
\* storing the stored text again leaves it as it is.
C23_ExpressionNormalization ==
    /\ tpc \in {"emitted", "applied"} =>
          /\ tmsg.type = "SetInputValue"
          /\ tmsg.input_index = expression_index
          /\ tmsg.value = TV("String", Normalized(tfield))
    /\ tpc = "applied" => tval = TV("String", Normalized(tfield))
    /\ tpc = "reapplied" => (tval.v = tfield /\ tval.v = Normalized(ttoks))

\* "^" typed between blanks was stored as "A ^ B", and storing that again
\* kept it
C23_Witness ==
    /\ tpc = "reapplied"
    /\ ttoks = <<" ", "^", "\t">>
    /\ tval = TV("String", <<"A", " ", "^", " ", "B">>)

(***************************************************************************)
(* Properties of the alias match (SpecAlias).                              *)
(***************************************************************************)
Identified == rpc = "identified"
KnownAlias == rout.ty[1].alias # <<>> /\ rout.ty[1].alias[1] \in Aliases
\* what dispatch built for the type
Built == [res |-> rout.res, rows |-> rout.rows]
\* what dispatch builds for the type `ty` on the same node, slot and options
BuiltFor(ty) == property_from_type(ResNode, 1, ty, rout.options, rctx)

\* C24: for a concrete type carrying one of the nine aliases, dispatch builds
\* what it builds for that alias on f64, whatever the type's identity; for a
\* type without an alias or with another alias it builds what it builds for
\* the identity alone.
C24_AliasBeforeIdentity ==
    Identified =>
        /\ KnownAlias => Built = BuiltFor(AliasType(rout.ty[1].alias[1]))
        /\ ~KnownAlias => Built = BuiltFor([rout.ty[1] EXCEPT !.alias = NoOption])

\* a bool carrying the Percentage alias on a slot holding a number: the row
\* has the percentage number field and no checkbox
C24_Witness ==
    /\ Identified
    /\ rout.ty[1].id = <<"bool">>
    /\ rout.ty[1].alias = <<"Percentage">>
    /\ rout.res = "Ok"
    /\ \E w \in 1..Len(rout.rows[1].widgets) :
          /\ rout.rows[1].widgets[w].widget = "NumberInput"
          /\ rout.rows[1].widgets[w].props.unit = "%"
    /\ \A w \in 1..Len(rout.rows[1].widgets) : rout.rows[1].widgets[w].widget # "CheckboxInput"

(***************************************************************************)
(* Dispatch on wrapped types (SpecUnwrap): DispatchWrapped calls           *)
(* property_from_type on a type under up to MaxWrap function-of and        *)
(* future-of wrappers.                                                     *)
(***************************************************************************)
\* the types made of `inner` under at most n wrappers; a function's input
\* type is one that dispatch would build another control for
RECURSIVE Wrappings(_, _)
Wrappings(inner, n) ==
    IF n = 0 THEN {inner}
    ELSE Wrappings(inner, n - 1)
         \cup {Future(<<"F", "u", "t">>, ty) : ty \in Wrappings(inner, n - 1)}
         \cup {FnOf(<<"F", "n">>, input, ty) : input \in {TypeBool, TypeString}, ty \in Wrappings(inner, n - 1)}
WrapInputs ==
    {Literal(TV("F64", <<F(1)>>)), ValueInput(TV("F64", <<F(1)>>), TRUE), Literal(TV("Bool", <<TRUE>>)),
     Literal(TV("String", <<"a">>))}

InitUnwrap ==
    /\ \E lookup \in Lookups, input \in WrapInputs :
          rctx = ResContext(lookup, input, ProtoNode, NoOption, NoOption, TypeGeneric)
    /\ rcands = <<>>
    /\ rout = NoAliasResult
    /\ rpc = "ready"
    /\ IdleText
    /\ IdlePanel

\* property_from_type is called on a wrapped type
DispatchWrapped ==
    /\ rpc = "ready"
    /\ \E inner \in CandidatePool, options \in {NoNumberOptions, <<Some(F(5)), Some(F(50)), NoOption>>} :
          \E ty \in Wrappings(inner, MaxWrap) :
             \E result \in {property_from_type(ResNode, 1, ty, options, rctx)} :
                rout' = [op |-> "wrapped", ty |-> Some(ty), options |-> options,
                         res |-> result.res, rows |-> result.rows]
    /\ rpc' = "unwrapped"
    /\ UNCHANGED <<rctx, rcands>>
    /\ UNCHANGED <<textVars, panelVars>>

NextUnwrap == DispatchWrapped
SpecUnwrap == InitUnwrap /\ [][NextUnwrap]_vars

(***************************************************************************)
(* Properties of dispatch on wrapped types (SpecUnwrap).                   *)
(***************************************************************************)
\* the descriptor under every wrapper, following a function's output
RECURSIVE Innermost(_)
Innermost(ty) == IF ty.kind \in {"Fn", "Future"} THEN Innermost(ty.out[1]) ELSE ty
RECURSIVE Depth(_)
Depth(ty) == IF ty.kind \in {"Fn", "Future"} THEN 1 + Depth(ty.out[1]) ELSE 0

\* C25: dispatch on a type under function-of and future-of wrappers returns
\* what dispatch returns on the innermost descriptor, reached through the
\* functions' output types, with the same node, slot and number options.
C25_WrappersAreTransparent ==
    rpc = "unwrapped" => Built = BuiltFor(Innermost(rout.ty[1]))

\* a function from bool to a future of f64 on a slot holding a number:
\* dispatch built the number field of f64
C25_Witness ==
    /\ rpc = "unwrapped"
    /\ Depth(rout.ty[1]) = 2
    /\ rout.ty[1].kind = "Fn"
    /\ rout.ty[1].arg = <<TypeBool>>
    /\ Innermost(rout.ty[1]) = TypeF64
    /\ rout.res = "Ok"
    /\ \E w \in 1..Len(rout.rows[1].widgets) : rout.rows[1].widgets[w].widget = "NumberInput"

(***************************************************************************)
(* Properties of the Rectangle panel over sequences of edits (Spec).       *)
(***************************************************************************)
RectanglePanel == node.kind = "rectangle_properties"
\* the mode flag is true exactly when the radius slot holds a 4-element
\* array, and false exactly when it holds a scalar
FlagAgreesWithShape(inputs) ==
    /\ inputs[corner_rounding_type_index].value.tag = "Bool"
    /\ inputs[corner_radius_index].value.tag \in {"F64", "F64Array4"}
    /\ inputs[corner_rounding_type_index].value.v[1]
          <=> inputs[corner_radius_index].value.tag = "F64Array4"
    /\ inputs[corner_radius_index].value.tag = "F64Array4" => Len(inputs[corner_radius_index].value.v) = 4

\* C26: from a Rectangle node whose mode flag agrees with the shape of its
\* radius, after any sequence of edits of its panel, each made on a panel
\* rebuilt from the node and each message (a batch as a whole) applied in
\* one step, the flag and the shape still agree.
C26_FlagAgreesWithShape ==
    RectanglePanel => FlagAgreesWithShape(node.inputs)

\* the mode was switched to Individual on a node that was Uniform, the
\* batch was applied, and the panel was rebuilt
C26_Witness ==
    /\ RectanglePanel
    /\ pc = "fresh"
    /\ node.inputs[corner_rounding_type_index].value.v[1]
    /\ node.inputs[corner_radius_index].value = TV("F64Array4", <<F(5), F(5), F(5), F(5)>>)

(***************************************************************************)
(* Two callbacks of one panel: the Rectangle and Fill panels keep their    *)
(* callbacks, with the values captured when the panel was built, until the *)
(* panel is rebuilt.  A second control of the same panel is used after the *)
(* first message was applied and before any rebuild.                       *)
(***************************************************************************)
InitStale ==
    /\ node \in RectangleNodes \cup FillNodes
    /\ snap = node.inputs
    /\ ctl = NoControl
    /\ msg = NoMsg
    /\ pc = "fresh"
    /\ IdleText
    /\ IdleResolve

\* a second control of the panel on screen emits its live update
EditStale ==
    /\ pc = "stale"
    /\ \E layout \in {Shown} : \E site \in Sites(layout) :
          \E widget \in {SiteWidget(layout, site)} : \E callback \in {SiteOnUpdate(layout, site)} :
             /\ callback.fn # "none"
             /\ \E x \in UiInputs(widget, callback) : msg' = Invoke(callback, x)
             /\ (msg'.type = "ExposeInput" /\ msg'.set_to_exposed) => ExposedCount(node.inputs) < MaxExposed
             /\ ctl' = [widget |-> widget, entry |-> SiteLabel(layout, site), site |-> site]
    /\ pc' = "reemitted"
    /\ UNCHANGED <<node, snap>>
    /\ UNCHANGED <<textVars, resVars>>

\* the dispatcher applies the second message
ApplyStale ==
    /\ pc = "reemitted"
    /\ node' = [node EXCEPT !.inputs = ApplyMessage(node.inputs, msg)]
    /\ pc' = "raced"
    /\ UNCHANGED <<snap, ctl, msg>>
    /\ UNCHANGED <<textVars, resVars>>

NextStale == Edit \/ Apply \/ EditStale \/ ApplyStale
SpecStale == InitStale /\ [][NextStale]_vars

FillPanel == node.kind = "fill_properties"
FillSlotHoldsFill == node.inputs[1].kind = "Value" /\ node.inputs[1].value.tag = "Fill"

\* C27: when two messages of callbacks of one panel are applied one after
\* the other with no rebuild in between, the node is still consistent: a
\* Rectangle's mode flag agrees with the shape of its radius, and a Fill
\* node's fill slot holds a Fill.
C27_StaleCallbacksKeepConsistency ==
    pc = "raced" =>
        /\ RectanglePanel => FlagAgreesWithShape(node.inputs)
        /\ FillPanel => FillSlotHoldsFill

(***************************************************************************)
(* The Fill panel's mode switch after a swatch edit (Spec).                *)
(***************************************************************************)
\* the node's inputs after the entry `label` of the mode switch of the panel
\* rebuilt from `inputs` was chosen and its message applied
SwitchMode(inputs, label) ==
    LET layout == Panel("fill_properties", node.types, inputs)
        chosen == {site \in Sites(layout) :
                      /\ SiteWidget(layout, site).widget = "RadioInput"
                      /\ SiteLabel(layout, site) = label}
    IN  IF chosen = {} THEN inputs
        ELSE ApplyMessage(inputs, Invoke(SiteOnUpdate(layout, CHOOSE site \in chosen : TRUE), 0))
ActiveFill(inputs) == inputs[1].value.v
\* a swatch edit has just been applied to the Fill node
SwatchApplied ==
    /\ FillPanel
    /\ pc = "stale"
    /\ ctl.widget.widget = "ColorInput"

\* C28: after a swatch edit that leaves the active fill Solid(c), switching
\* the mode to Gradient and back to Solid makes the active fill Solid(c)
\* again; an active gradient g survives Gradient -> Solid -> Gradient.
C28_FillSurvivesModeRoundTrip ==
    SwatchApplied =>
        /\ ActiveFill(node.inputs).kind = "Solid" =>
              ActiveFill(SwitchMode(SwitchMode(node.inputs, "Gradient"), "Solid")) = ActiveFill(node.inputs)
        /\ ActiveFill(node.inputs).kind = "Gradient" =>
              ActiveFill(SwitchMode(SwitchMode(node.inputs, "Solid"), "Gradient")) = ActiveFill(node.inputs)

(***************************************************************************)
(* The Rectangle panel's individual-radius text field (SpecText).          *)
(***************************************************************************)
RadiusField == tctl = "rectangle_properties"
AllParse(toks) == \A i \in 1..Len(toks) : Len(ParseF64(toks[i])) = 1
Parsed(toks) == [i \in 1..Len(toks) |-> ParseF64(toks[i])[1]]

\* C29: the individual-radius field's live update emits an update exactly
\* when every non-empty token of the text (split on ',' and ' ') is a
\* number; with exactly four tokens the array written to slot 4 is those
\* four numbers in order, with any other count (empty text included) it is
\* [0, 0, 0, 0].
C29_RadiusTextField ==
    (RadiusField /\ tpc = "emitted") =>
        /\ tmsg.type \in {"NoOp", "SetInputValue"}
        /\ tmsg.type = "SetInputValue" <=> AllParse(Typed)
        /\ tmsg.type = "SetInputValue" =>
              /\ tmsg.node_id = TextNode /\ tmsg.input_index = corner_radius_index
              /\ tmsg.value.tag = "F64Array4"
              /\ Len(Typed) = 4 => tmsg.value.v = Parsed(Typed)
              /\ Len(Typed) # 4 => tmsg.value.v = <<F(0), F(0), F(0), F(0)>>

\* the text "1 2.5 2.5 1" was typed and written as [1, 2.5, 2.5, 1]
C29_Witness ==
    /\ RadiusField
    /\ tpc = "emitted"
    /\ ttoks = <<<<"1">>, <<"2", ".", "5">>, <<"2", ".", "5">>, <<"1">>>>
    /\ tmsg.type = "SetInputValue"
    /\ tmsg.value = TV("F64Array4", <<F(1), Fd(25, 1), Fd(25, 1), F(1)>>)

(***************************************************************************)
(* Catalog dispatch on either of two slots of either of two nodes: what    *)
(* the callbacks of the controls it builds write.                          *)
(***************************************************************************)
FrameNodes == {"n3", "n4"}
FrameSlots == {1, 2}
FrameContext(node_id, value, exposed) ==
    [SectionContext("ok", Inputs(<<WireInput, ValueInput(value, exposed[1]), ValueInput(value, exposed[2])>>),
                    <<>>, <<NoOption, NoOption>>, NoOption, NoOption, Network, "node")
        EXCEPT !.network = Some([nodes |-> (node_id :> [inputs |-> Inputs(<<WireInput,
                                                                             ValueInput(value, exposed[1]),
                                                                             ValueInput(value, exposed[2])>>)])])]

InitFrame ==
    /\ \E slot \in SlotCatalog, node_id \in FrameNodes, exposed \in [FrameSlots -> BOOLEAN] :
          rctx = FrameContext(node_id, slot[2], exposed)
    /\ rcands = <<>>
    /\ rout = NoResult
    /\ rpc = "ready"
    /\ IdleText
    /\ IdlePanel

\* property_from_type is called for a slot of the node with a catalog type
DispatchSlot ==
    /\ rpc = "ready"
    /\ \E node_id \in DOMAIN rctx.network[1].nodes, index \in FrameSlots, ty \in CatalogTypes :
          \E result \in {property_from_type(node_id, index, ty, NoNumberOptions, rctx)} :
              rout' = [op |-> "slot", ty |-> Some(ty), res |-> result.res, rows |-> result.rows,
                       node_id |-> node_id, index |-> index]
    /\ rpc' = "framed"
    /\ UNCHANGED <<rctx, rcands>>
    /\ UNCHANGED <<textVars, panelVars>>

NextFrame == DispatchSlot
SpecFrame == InitFrame /\ [][NextFrame]_vars

Framed == rpc = "framed" /\ rout.op = "slot"
\* the exposed flag of the slot the controls were built for
ExposedAtBuild == is_exposed(rctx.network[1].nodes[rout.node_id].inputs[rout.index])
\* the messages a callback site of the built rows can produce
SiteMessages(layout, site) ==
    {Invoke(SiteOnUpdate(layout, site), x) :
        x \in UiInputs(SiteWidget(layout, site), SiteOnUpdate(layout, site))}
LiveSites(layout) == {site \in Sites(layout) : SiteOnUpdate(layout, site).fn # "none"}

\* C30: every message of a live-update callback of a control that
\* property_from_type built for slot i of node n is NoOp or one
\* SetInputValue for (n, i), and the expose button built for the slot
\* emits ExposeInput for (n, i) with the negation of the exposed flag the
\* slot had when the control was built.
C30_SingleSlotFrame ==
    (Framed /\ rout.res # "Panic") =>
        \A layout \in {rout.rows} : \A site \in LiveSites(layout) : \A m \in SiteMessages(layout, site) :
            IF SiteWidget(layout, site).widget = "ParameterExposeButton"
            THEN m = ExposeInput(rout.node_id, rout.index, ~ExposedAtBuild)
            ELSE \/ m = NoOp
                 \/ /\ m.type = "SetInputValue"
                    /\ m.node_id = rout.node_id
                    /\ m.input_index = rout.index

\* the number field and the expose button built for slot 2 of node n4
C30_Witness ==
    /\ Framed
    /\ rout.node_id = "n4" /\ rout.index = 2
    /\ ~ExposedAtBuild
    /\ \E site \in LiveSites(rout.rows) : SiteWidget(rout.rows, site).widget = "NumberInput"
    /\ \E site \in LiveSites(rout.rows) : SiteWidget(rout.rows, site).widget = "ParameterExposeButton"
====
